---- MODULE Spec2Model ----
(***************************************************************************)
(* A model of src/dependencies.py: the template expander                   *)
(* (EnvironmentExpander), the dependency records and their collection      *)
(* (Dependency, DependencyCollection, read_json_dependencies) and the      *)
(* rename-then-delete cleaner (clean_directories) and the entry point      *)
(* that drives them (fetch_dependencies).                                  *)
(*                                                                         *)
(* The specifications of the module:                                       *)
(*   SpecClean   one call of clean_directories, one OS call per step;      *)
(*   SpecExpand  a sequence of top-level expand(key) calls on one          *)
(*               EnvironmentExpander;                                      *)
(*   SpecStruct  the same on an environment with a list or a mapping;      *)
(*   SpecCond    the same on an environment with a conditional;            *)
(*   SpecBranch  the same with branch keys that are absent or cyclic;      *)
(*   SpecBuild   read_json_dependencies, one definition per step;          *)
(*   SpecBatch   one batch call (fetch / checkout / get_args) on a built   *)
(*               collection, one record per step;                          *)
(*   SpecRecord  calls of fetch and checkout on one Dependency;            *)
(*   SpecFetchDeps  one call of fetch_dependencies: the cleaner, the       *)
(*               collection, the fetch batch, NuGet, the checkout batch.   *)
(***************************************************************************)
EXTENDS Integers, Sequences, FiniteSets, TLC

VARIABLES
    \* ---- clean_directories ----
    cpc,            \* position in clean_directories
    directories,    \* the argument, as a list
    idx,            \* position of the rename loop / the delete loop
    moved,          \* the list `moved` (original names; newname is original + '.deleteme')
    lastdirectory,  \* the local `lastdirectory`
    rb,             \* position of the rollback loop over reversed(moved)
    fs,             \* the filesystem: path -> "absent" | "file" | the tree held there
    harmed,         \* trees that rmtree has removed, wholly or in part
    raised,         \* the exception leaving clean_directories
    oplog           \* the OS calls made so far, oldest first

cleanVars == <<cpc, directories, idx, moved, lastdirectory, rb, fs, harmed, raised, oplog>>

VARIABLES
    \* ---- one EnvironmentExpander ----
    env_dict,       \* self.env_dict
    cache,          \* self.cache
    expandset,      \* self.expandset
    lastcall        \* the last top-level call: its key, and what it returned or raised

expVars == <<env_dict, cache, expandset, lastcall>>

VARIABLES
    \* ---- one DependencyCollection ----
    base_env,       \* self.base_env
    definitions,    \* the list json.load(dependencyfile) gave
    overrides,      \* the list json.load(overridefile) gave
    dpos,           \* position of the loop of read_json_dependencies
    dependencies,   \* self.dependencies: name -> Dependency
    bpc,            \* position: Building, BuildFailed, Ready, Running, Returned, Raised
    bexc,           \* the exception that left the build or the batch call
    \* ---- one batch call on it ----
    bop,            \* the batch method called: fetch, checkout, get_args
    bsubset,        \* its argument `subset`
    blist,          \* what _filter returned, as names of self.dependencies
    bidx,           \* position of the loop over it
    failed_dependencies,
    configure_args, \* the sum get_args builds
    attempted,      \* the names whose operation was called, in order
    syslog,         \* the calls made on the world (files, git), in order
    bret            \* what the batch call returned

batchVars == <<bop, bsubset, blist, bidx, failed_dependencies, configure_args, attempted, syslog, bret>>
collVars == <<base_env, definitions, overrides, dpos, dependencies, bpc, bexc, batchVars>>

VARIABLES
    \* ---- one Dependency, called on its own ----
    rec,            \* the Dependency: its environment and its expander
    rop,            \* the method last called on it: fetch, checkout
    rworld,         \* what the world answered to that call
    rout            \* what the call returned or raised, and the calls it made on the world

recVars == <<rec, rop, rworld, rout>>

VARIABLES
    \* ---- one call of fetch_dependencies ----
    fpc,            \* position in fetch_dependencies
    fargs,          \* its arguments
    fdlog           \* the stages it has gone through, in order

fdVars == <<fpc, fargs, fdlog>>

vars == <<cleanVars, expVars, collVars, recVars, fdVars>>

\* What the steps of one component leave alone.
notClean == <<expVars, collVars, recVars, fdVars>>
notExpand == <<cleanVars, collVars, recVars, fdVars>>
notColl == <<cleanVars, expVars, recVars, fdVars>>
notRec == <<cleanVars, expVars, collVars, fdVars>>

None == "<none>"
NoBatch == "<no batch>"
\* subset=None
NoSubset == [given |-> FALSE, names |-> <<>>]

\* No exception.
NoError == [kind |-> "none", directory |-> None]

\* No call of fetch_dependencies.
NoArgs == [called |-> FALSE]


(***************************************************************************)
(* Values of an environment (what json.load and DEPENDENCY_TYPES hold)     *)
(***************************************************************************)

Str(s) == [ty |-> "str", s |-> s]
BoolV(b) == [ty |-> "bool", b |-> b]
NumV(n) == [ty |-> "num", n |-> n]
NullV == [ty |-> "null"]
ListV(l) == [ty |-> "list", l |-> l]
DictV(d) == [ty |-> "dict", d |-> d]

\* A dict with no entry.
EmptyMap == [k \in {} |-> NullV]

\* The sequences over S of length n at most.
SeqsUpTo(S, n) == UNION {[1..k -> S] : k \in 0..n}

\* ---- strings, character by character ----

Char(s, i) == SubSeq(s, i, i)

Lowers == "abcdefghijklmnopqrstuvwxyz"
Uppers == "ABCDEFGHIJKLMNOPQRSTUVWXYZ"
Digits == "0123456789"

CharsOf(s) == {Char(s, i) : i \in 1..Len(s)}

\* [a-zA-Z_] and [a-zA-Z_0-9] of template_regex
IdentStart == CharsOf(Lowers) \cup CharsOf(Uppers) \cup {"_"}
IdentChar == IdentStart \cup CharsOf(Digits)

\* What str.strip() removes.
Whitespace == {" ", "\t", "\n", "\r"}

\* Least member of a non-empty set of numbers.
Min(S) == CHOOSE n \in S : \A m \in S : n <= m
Max(S) == CHOOSE n \in S : \A m \in S : n >= m

\* s.find(ch) from position `from`, 1-based; 0 when ch does not occur.
Find(s, ch, from) ==
    LET hits == {j \in from..Len(s) : Char(s, j) = ch}
    IN IF hits = {} THEN 0 ELSE Min(hits)

\* ch in s
Contains(s, ch) == Find(s, ch, 1) # 0

\* s.strip()
Strip(s) ==
    LET solid == {j \in 1..Len(s) : Char(s, j) \notin Whitespace}
    IN IF solid = {} THEN "" ELSE SubSeq(s, Min(solid), Max(solid))

\* s.upper()
UpperChar(c) ==
    LET at == Find(Lowers, c, 1)
    IN IF at = 0 THEN c ELSE Char(Uppers, at)

RECURSIVE Upper(_)
Upper(s) == IF s = "" THEN "" ELSE UpperChar(Char(s, 1)) \o Upper(SubSeq(s, 2, Len(s)))

\* is_trueish(value), lines 187-190: value in [1, "1", "YES", "Y", "TRUE", "ON", True]
\* after value.upper() where the value has one.  In Python True == 1.
is_trueish(value) ==
    CASE value.ty = "str" -> Upper(value.s) \in {"1", "YES", "Y", "TRUE", "ON"}
      [] value.ty = "num" -> value.n = 1
      [] value.ty = "bool" -> value.b
      [] OTHER -> FALSE

\* ---- template_regex, lines 194-199 ----

NoMatch == [group |-> "none", text |-> ""]

\* The end of the longest run of [a-zA-Z_0-9] that starts at position from.
WordEnd(s, from) ==
    LET stops == {j \in from..Len(s) : Char(s, j) \notin IdentChar}
    IN IF stops = {} THEN Len(s) ELSE Min(stops) - 1

\* template_regex.match at position i of s: $$, then $word, then ${any-thing}.
MatchAt(s, i) ==
    IF Char(s, i) # "$" \/ i = Len(s) THEN NoMatch
    ELSE IF Char(s, i + 1) = "$" THEN [group |-> "dollar", text |-> "$$"]
    ELSE IF Char(s, i + 1) \in IdentStart
        THEN [group |-> "word", text |-> SubSeq(s, i, WordEnd(s, i + 1))]
    ELSE IF Char(s, i + 1) = "{" /\ Find(s, "}", i + 2) # 0
        THEN [group |-> "parens", text |-> SubSeq(s, i, Find(s, "}", i + 2))]
    ELSE NoMatch

(***************************************************************************)
(* EnvironmentExpander, lines 192-266.  An expander is its env_dict, its   *)
(* cache and its expandset; every method takes the env_dict and the state  *)
(* st = [cache, expandset] it finds and gives back the state it leaves,    *)
(* with the value it returns or the exception it raises.                   *)
(***************************************************************************)

NoExc == [exc |-> "none", arg |-> ""]
KeyError(key) == [exc |-> "KeyError", arg |-> key]
RecursiveExpansion(key) == [exc |-> "ValueError:Recursive expansion for key", arg |-> key]
MalformedExpression == [exc |-> "ValueError:conditional must be of form", arg |-> ""]
TypeError == [exc |-> "TypeError", arg |-> ""]
AttributeError(name) == [exc |-> "AttributeError", arg |-> name]

\* __init__, lines 200-203
NewExpander == [cache |-> EmptyMap, expandset |-> {}]

Return(st, v) == [cache |-> st.cache, expandset |-> st.expandset, val |-> v, exc |-> NoExc]
Raise(st, e) == [cache |-> st.cache, expandset |-> st.expandset, val |-> NullV, exc |-> e]
Ok(r) == r.exc = NoExc
StateOf(r) == [cache |-> r.cache, expandset |-> r.expandset]

\* No Dependency, no answer of the world, no call made.
NoRecord == [env |-> EmptyMap, has_overrides |-> FALSE, cache |-> EmptyMap, expandset |-> {}]
NoWorld == [asked |-> FALSE]
NoOutcome == [ret |-> FALSE, exc |-> NoExc, calls |-> <<>>]

\* "".join(pieces) at the end of template_regex.sub: a None among the
\* replacements is left out, any other non-string is a TypeError.
RECURSIVE Join(_)
Join(pieces) ==
    IF pieces = <<>> THEN ""
    ELSE IF Head(pieces).ty = "null" THEN Join(Tail(pieces))
    ELSE Head(pieces).s \o Join(Tail(pieces))

Joinable(pieces) == \A i \in 1..Len(pieces) : pieces[i].ty \in {"str", "null"}

RECURSIVE expand(_, _, _)
RECURSIVE _expand(_, _, _)
RECURSIVE _expandvalue(_, _, _)
RECURSIVE expandlist(_, _, _, _, _)
RECURSIVE sub(_, _, _, _, _)
RECURSIVE replacematch(_, _, _)
RECURSIVE expandconditional(_, _, _)

\* expand with line 223 storing the raw value instead of the result.
expand_CacheRaw(env, st, key) ==
    IF key \in DOMAIN st.cache THEN Return(st, st.cache[key])
    ELSE IF key \in st.expandset THEN Raise(st, RecursiveExpansion(key))
    ELSE LET r == _expand(env, [st EXCEPT !.expandset = @ \cup {key}], key)
         IN IF Ok(r)
            THEN [cache |-> (key :> env[key]) @@ r.cache,
                  expandset |-> r.expandset \ {key},
                  val |-> r.val,
                  exc |-> NoExc]
            ELSE r

\* expand, lines 216-225
expand(env, st, key) ==
    IF key \in DOMAIN st.cache THEN Return(st, st.cache[key])
    ELSE IF key \in st.expandset THEN Raise(st, RecursiveExpansion(key))
    ELSE LET r == _expand(env, [st EXCEPT !.expandset = @ \cup {key}], key)
         IN IF Ok(r)
            THEN [cache |-> (key :> r.val) @@ r.cache,
                  expandset |-> r.expandset \ {key},
                  val |-> r.val,
                  exc |-> NoExc]
            ELSE r

\* _expand, lines 226-230
_expand(env, st, key) ==
    IF key \notin DOMAIN env THEN Raise(st, KeyError(key))
    ELSE _expandvalue(env, st, env[key])

\* _expandvalue, lines 231-238.  Line 237 calls self.expandvalue, which the
\* class does not define: a dict with an entry raises AttributeError.
_expandvalue(env, st, value) ==
    CASE value.ty = "str" -> sub(env, st, value.s, 1, <<>>)
      [] value.ty = "list" -> expandlist(env, st, value.l, 1, <<>>)
      [] value.ty = "dict" ->
            IF DOMAIN value.d = {} THEN Return(st, value)
            ELSE Raise(st, AttributeError("expandvalue"))
      [] OTHER -> Return(st, value)

\* [self._expandvalue(x) for x in value], line 235
expandlist(env, st, l, i, acc) ==
    IF i > Len(l) THEN Return(st, ListV(acc))
    ELSE LET r == _expandvalue(env, st, l[i])
         IN IF Ok(r) THEN expandlist(env, StateOf(r), l, i + 1, Append(acc, r.val))
            ELSE r

\* template_regex.sub(self.replacematch, value), line 233: the matches from
\* left to right, each replaced by what replacematch returns, the text
\* between them kept; the pieces are joined at the end.
sub(env, st, s, i, acc) ==
    IF i > Len(s)
    THEN IF Joinable(acc) THEN Return(st, Str(Join(acc))) ELSE Raise(st, TypeError)
    ELSE LET m == MatchAt(s, i)
             \* the text up to the next "$" has no match in it
             dollar == Find(s, "$", i + 1)
             next == IF dollar = 0 THEN Len(s) + 1 ELSE dollar
         IN IF m.group = "none"
            THEN sub(env, st, s, next, Append(acc, Str(SubSeq(s, i, next - 1))))
            ELSE LET r == replacematch(env, st, m)
                 IN IF Ok(r)
                    THEN sub(env, StateOf(r), s, i + Len(m.text), Append(acc, r.val))
                    ELSE r

\* replacematch, lines 239-251
replacematch(env, st, match) ==
    IF match.group = "dollar" THEN Return(st, Str("$"))
    ELSE LET key == Strip(IF match.group = "word"
                          THEN SubSeq(match.text, 2, Len(match.text))
                          ELSE SubSeq(match.text, 3, Len(match.text) - 1))
         IN IF Contains(key, "?") THEN expandconditional(env, st, key)
            ELSE expand(env, st, key)

\* expandconditional that resolves both branches before it chooses.
expandconditional_BothBranches(env, st, key) ==
    IF ~Contains(key, "?") THEN Raise(st, MalformedExpression)
    ELSE LET q == Find(key, "?", 1)
             rest == SubSeq(key, q + 1, Len(key))
         IN IF ~Contains(rest, ":") THEN Raise(st, MalformedExpression)
            ELSE LET c == Find(rest, ":", 1)
                     condition == Strip(SubSeq(key, 1, q - 1))
                     primary == Strip(SubSeq(rest, 1, c - 1))
                     alternative == Strip(SubSeq(rest, c + 1, Len(rest)))
                     r == expand(env, st, condition)
                     conditionvalue == IF Ok(r) THEN r.val ELSE BoolV(FALSE)
                     rp == expand(env, StateOf(r), primary)
                     ra == expand(env, StateOf(rp), alternative)
                 IN IF ~Ok(r) /\ r.exc.exc # "KeyError" THEN r
                    ELSE IF ~Ok(rp) THEN rp
                    ELSE IF ~Ok(ra) THEN ra
                    ELSE [ra EXCEPT !.val = IF is_trueish(conditionvalue) THEN rp.val ELSE ra.val]

\* expandconditional, lines 252-266
expandconditional(env, st, key) ==
    IF ~Contains(key, "?") THEN Raise(st, MalformedExpression)
    ELSE LET q == Find(key, "?", 1)
             rest == SubSeq(key, q + 1, Len(key))
         IN IF ~Contains(rest, ":") THEN Raise(st, MalformedExpression)
            ELSE LET c == Find(rest, ":", 1)
                     condition == Strip(SubSeq(key, 1, q - 1))
                     primary == Strip(SubSeq(rest, 1, c - 1))
                     alternative == Strip(SubSeq(rest, c + 1, Len(rest)))
                     r == expand(env, st, condition)
                     \* except KeyError: conditionvalue = False
                     conditionvalue == IF Ok(r) THEN r.val ELSE BoolV(FALSE)
                 IN IF ~Ok(r) /\ r.exc.exc # "KeyError" THEN r
                    ELSE IF is_trueish(conditionvalue)
                         THEN expand(env, StateOf(r), primary)
                         ELSE expand(env, StateOf(r), alternative)

(***************************************************************************)
(* SpecExpand: one EnvironmentExpander over an environment drawn from      *)
(* Envs, and top-level calls expand(key) (__getitem__, Dependency[...])    *)
(* made on it one after the other.                                         *)
(***************************************************************************)

\* The keys an environment of the model may define, and a key none defines.
Keys == {"a", "b", "c"}
MissingKey == "m"

\* What a key of a model environment may hold.
Pool == {
    Str("x"),
    Str("${b}"),
    Str("$c"),
    Str("${a}"),
    Str("${m}${a}"),
    Str("${b?a:c}"),
    Str("${ m ? a : c }"),
    Str("${m?a:c}${m?a:c}"),
    Str("${c?a}"),
    BoolV(TRUE) }

Absent == [ty |-> "absent"]

EnvOf(f) == [k \in {k \in DOMAIN f : f[k] # Absent} |-> f[k]]

Envs == {EnvOf(f) : f \in [Keys -> Pool \cup {Absent}]}

NoCall == [key |-> None, val |-> NullV, exc |-> NoExc]

ExpandInit ==
    /\ env_dict \in Envs
    /\ cache = EmptyMap
    /\ expandset = {}
    /\ lastcall = NoCall
    \* no Dependency called on its own
    /\ rec = NoRecord
    /\ rop = None
    /\ rworld = NoWorld
    /\ rout = NoOutcome
    \* no call of fetch_dependencies
    /\ fpc = "Idle"
    /\ fargs = NoArgs
    /\ fdlog = <<>>
    \* no call of clean_directories
    /\ cpc = "Idle"
    /\ directories = <<>>
    /\ idx = 0
    /\ moved = <<>>
    /\ lastdirectory = None
    /\ rb = 0
    /\ fs = <<>>
    /\ harmed = {}
    /\ raised = NoError
    /\ oplog = <<>>
    \* no collection
    /\ base_env = EmptyMap
    /\ definitions = <<>>
    /\ overrides = <<>>
    /\ dpos = 0
    /\ dependencies = EmptyMap
    /\ bpc = "Idle"
    /\ bexc = NoExc
    /\ bop = NoBatch
    /\ bsubset = NoSubset
    /\ blist = <<>>
    /\ bidx = 0
    /\ failed_dependencies = <<>>
    /\ configure_args = <<>>
    /\ attempted = <<>>
    /\ syslog = <<>>
    /\ bret = NullV

\* A top-level call expand(key): what it returns or raises is kept in `lastcall`.
Resolve(key) ==
    LET r == expand(env_dict, [cache |-> cache, expandset |-> expandset], key)
    IN /\ cache' = r.cache
       /\ expandset' = r.expandset
       /\ lastcall' = [key |-> key, val |-> r.val, exc |-> r.exc]
       /\ UNCHANGED <<env_dict, notExpand>>

ExpandNext == \E key \in Keys \cup {MissingKey} : Resolve(key)

SpecExpand == ExpandInit /\ [][ExpandNext]_vars

\* ---- what the expander's claims speak of ----

\* The expander as it stands between two top-level calls.
Now == [cache |-> cache, expandset |-> expandset]

\* The matches of template_regex in s, from position i on, left to right.
RECURSIVE Matches(_, _)
Matches(s, i) ==
    IF i > Len(s) THEN <<>>
    ELSE LET m == MatchAt(s, i)
         IN IF m.group = "none" THEN Matches(s, i + 1)
            ELSE <<m>> \o Matches(s, i + Len(m.text))

\* The expression a match holds: what replacematch takes for its key.
ExprOf(m) ==
    Strip(IF m.group = "word" THEN SubSeq(m.text, 2, Len(m.text))
          ELSE SubSeq(m.text, 3, Len(m.text) - 1))

CondOf(expr) == Strip(SubSeq(expr, 1, Find(expr, "?", 1) - 1))
RestOf(expr) == SubSeq(expr, Find(expr, "?", 1) + 1, Len(expr))
PrimaryOf(expr) == Strip(SubSeq(RestOf(expr), 1, Find(RestOf(expr), ":", 1) - 1))
AlternativeOf(expr) == Strip(SubSeq(RestOf(expr), Find(RestOf(expr), ":", 1) + 1, Len(RestOf(expr))))

\* The keys one expression refers to in environment e: a plain reference refers
\* to its key; a well-formed conditional to its condition key and to the branch
\* its condition selects (the alternative when the condition key is absent).
\* The condition is valued on a fresh expander.
RefsOfExpr(e, expr) ==
    IF ~Contains(expr, "?") THEN {expr}
    ELSE IF ~Contains(RestOf(expr), ":") THEN {}
    ELSE LET c == CondOf(expr)
             r == expand(e, NewExpander, c)
         IN {c} \cup (IF c \notin DOMAIN e THEN {AlternativeOf(expr)}
                      ELSE IF ~Ok(r) THEN {}
                      ELSE IF is_trueish(r.val) THEN {PrimaryOf(expr)}
                      ELSE {AlternativeOf(expr)})

\* The keys the value of key k refers to.
RefsOf(e, k) ==
    IF k \notin DOMAIN e \/ e[k].ty # "str" THEN {}
    ELSE LET ms == Matches(e[k].s, 1)
         IN UNION {RefsOfExpr(e, ExprOf(ms[i])) : i \in {j \in 1..Len(ms) : ms[j].group # "dollar"}}

\* The keys reached from the set S by one or more references.
RECURSIVE ReachedFrom(_, _, _)
ReachedFrom(e, S, n) ==
    IF n = 0 THEN S
    ELSE ReachedFrom(e, S \cup UNION {RefsOf(e, k) : k \in S}, n - 1)

\* k lies on a cycle of references, of any length.
OnCycle(e, k) == k \in ReachedFrom(e, RefsOf(e, k), Cardinality(DOMAIN e))

Returned(call) == call.key # None /\ call.exc = NoExc

\* C5 (its last clause: resolving a key that lies on a cycle of references,
\* through plain references or a conditional's condition or selected branch,
\* never returns a value): no top-level call for a key on a cycle has
\* returned, and no such key has a cache entry.
C5_CycleNeverReturns ==
    \A k \in DOMAIN env_dict :
        OnCycle(env_dict, k) =>
            /\ k \notin DOMAIN cache
            /\ ~(lastcall.key = k /\ Returned(lastcall))

\* The expression is a well-formed conditional whose condition key environment
\* e lacks and whose alternative resolves, on a fresh expander, to a string.
AbsentConditional(e, expr) ==
    /\ Contains(expr, "?")
    /\ Contains(RestOf(expr), ":")
    /\ CondOf(expr) \notin DOMAIN e
    /\ LET r == expand(e, NewExpander, AlternativeOf(expr))
       IN Ok(r) /\ r.val.ty = "str"

\* The values of the alternatives of a list of such conditionals, joined.
RECURSIVE AlternativesJoined(_, _)
AlternativesJoined(e, ms) ==
    IF ms = <<>> THEN ""
    ELSE expand(e, NewExpander, AlternativeOf(ExprOf(Head(ms)))).val.s
            \o AlternativesJoined(e, Tail(ms))

\* The string is made of one or more ${c?p:a} with c absent, and nothing else.
OnlyAbsentConditionals(e, s) ==
    LET ms == Matches(s, 1)
    IN /\ ms # <<>>
       /\ \A i \in 1..Len(ms) : ms[i].group = "parens" /\ AbsentConditional(e, ExprOf(ms[i]))
       /\ Len(s) = Len(Join([i \in 1..Len(ms) |-> Str(ms[i].text)]))

\* C6: every occurrence of a conditional ${c?p:a} whose condition key c is
\* absent from the environment resolves to the resolved value of key a: a call
\* for a key whose string is made of such conditionals (one, or a second
\* occurrence in the same string, after whatever was resolved before on this
\* expander) returns the values of their alternatives.
C6_AbsentConditionIsFalse ==
    (/\ lastcall.key \in DOMAIN env_dict
     /\ env_dict[lastcall.key].ty = "str"
     /\ OnlyAbsentConditionals(env_dict, env_dict[lastcall.key].s)) =>
        /\ Returned(lastcall)
        /\ lastcall.val = Str(AlternativesJoined(env_dict, Matches(env_dict[lastcall.key].s, 1)))

\* C7: every top-level resolve of a key that is absent from the environment
\* raises UndefinedKey (the first call and every retry), and leaves no cache
\* entry for the key.
C7_UndefinedKeyEveryTime ==
    (lastcall.key # None /\ lastcall.key \notin DOMAIN env_dict) =>
        /\ lastcall.exc = KeyError(lastcall.key)
        /\ lastcall.key \notin DOMAIN cache

\* C8: whenever no resolve call is active (after a resolve that returned and
\* after one that raised), the in-progress set is empty.
C8_InProgressEmptyBetweenCalls == expandset = {}

\* C9: a cache entry, once written, is never changed or removed; a call for a
\* key that has a cache entry returns that entry; and the value a call returns
\* for a key is the key's cache entry from then on.  So two calls resolve(k),
\* whatever is resolved in between, return the identical value.
C9_Memoized ==
    [][/\ \A k \in DOMAIN cache : k \in DOMAIN cache' /\ cache'[k] = cache[k]
       /\ lastcall'.key \in DOMAIN cache =>
             lastcall'.exc = NoExc /\ lastcall'.val = cache[lastcall'.key]
       /\ Returned(lastcall') =>
             lastcall'.key \in DOMAIN cache' /\ cache'[lastcall'.key] = lastcall'.val]_vars

\* C9's case: a key whose value is built from other keys was resolved, is
\* cached beside them, and the last call returned it while a failed call has
\* left keys behind in the in-progress set.
C9_Witness ==
    /\ Returned(lastcall)
    /\ env_dict[lastcall.key] = Str("${b?a:c}")
    /\ Cardinality(DOMAIN cache) = 3
    /\ expandset # {}

(***************************************************************************)
(* SpecStruct: top-level calls expand(key) on an EnvironmentExpander whose *)
(* key "v" holds a list, a mapping or a scalar, over the keys "x" and "y". *)
(***************************************************************************)

StructKeys == {"v", "x", "y"}

\* What the key "v" may hold.
StructPool == {
    ListV(<<>>),
    ListV(<<Str("${x}"), Str("lit")>>),
    ListV(<<Str("$x-$y"), Str("$$"), Str("${y}")>>),
    ListV(<<ListV(<<Str("$y")>>), NumV(3)>>),
    ListV(<<BoolV(TRUE), NullV>>),
    ListV(<<DictV("k" :> Str("$x"))>>),
    DictV(EmptyMap),
    DictV("k" :> Str("plain")),
    DictV("${x}" :> Str("${y}")),
    DictV(("k" :> Str("$x")) @@ ("n" :> NumV(1))),
    BoolV(FALSE),
    BoolV(TRUE),
    NumV(7),
    NullV }

\* What the keys "x" and "y" may hold.
LeafPool == {Str("1"), Str("${y}"), Str("two"), NumV(2), Absent}

StructEnvs ==
    {EnvOf(("v" :> v) @@ ("x" :> x) @@ ("y" :> y)) :
        v \in StructPool, x \in LeafPool, y \in LeafPool \ {Str("${y}")}}

StructInit ==
    /\ env_dict \in StructEnvs
    /\ cache = EmptyMap
    /\ expandset = {}
    /\ lastcall = NoCall
    \* no Dependency called on its own
    /\ rec = NoRecord
    /\ rop = None
    /\ rworld = NoWorld
    /\ rout = NoOutcome
    \* no call of fetch_dependencies
    /\ fpc = "Idle"
    /\ fargs = NoArgs
    /\ fdlog = <<>>
    \* no call of clean_directories
    /\ cpc = "Idle"
    /\ directories = <<>>
    /\ idx = 0
    /\ moved = <<>>
    /\ lastdirectory = None
    /\ rb = 0
    /\ fs = <<>>
    /\ harmed = {}
    /\ raised = NoError
    /\ oplog = <<>>
    \* no collection
    /\ base_env = EmptyMap
    /\ definitions = <<>>
    /\ overrides = <<>>
    /\ dpos = 0
    /\ dependencies = EmptyMap
    /\ bpc = "Idle"
    /\ bexc = NoExc
    /\ bop = NoBatch
    /\ bsubset = NoSubset
    /\ blist = <<>>
    /\ bidx = 0
    /\ failed_dependencies = <<>>
    /\ configure_args = <<>>
    /\ attempted = <<>>
    /\ syslog = <<>>
    /\ bret = NullV

StructNext == \E key \in StructKeys : Resolve(key)

SpecStruct == StructInit /\ [][StructNext]_vars

\* ---- what the claim on structured values speaks of ----

\* The expansion of a value in environment e by an expander in state st: of a
\* string, what template substitution gives; of a list or a mapping, the
\* expansions of its elements or values; of any other value, the value.
RECURSIVE Expansion(_, _, _)
Expansion(e, st, value) ==
    CASE value.ty = "str" -> sub(e, st, value.s, 1, <<>>).val
      [] value.ty = "list" -> ListV([i \in 1..Len(value.l) |-> Expansion(e, st, value.l[i])])
      [] value.ty = "dict" -> DictV([k \in DOMAIN value.d |-> Expansion(e, st, value.d[k])])
      [] OTHER -> value

\* Every string in the value has an expansion.
RECURSIVE Expands(_, _, _)
Expands(e, st, value) ==
    CASE value.ty = "str" -> Ok(sub(e, st, value.s, 1, <<>>))
      [] value.ty = "list" -> \A i \in 1..Len(value.l) : Expands(e, st, value.l[i])
      [] value.ty = "dict" -> \A k \in DOMAIN value.d : Expands(e, st, value.d[k])
      [] OTHER -> TRUE

\* The value has a mapping with an entry in it, at any depth.
RECURSIVE HasMapping(_)
HasMapping(value) ==
    CASE value.ty = "list" -> \E i \in 1..Len(value.l) : HasMapping(value.l[i])
      [] value.ty = "dict" -> DOMAIN value.d # {}
      [] OTHER -> FALSE

\* C12: a call for a key whose value is not a string, and whose strings all
\* have an expansion, returns the value expanded structurally: a list of the
\* same length with every element expanded, a mapping with the same keys and
\* every value expanded, a boolean, number or null as it is.
C12_StructuralExpansion ==
    [][(/\ lastcall'.key \in DOMAIN env_dict
        /\ lastcall'.key \notin DOMAIN cache
        /\ env_dict[lastcall'.key].ty # "str"
        /\ Expands(env_dict, Now, env_dict[lastcall'.key])) =>
            /\ Returned(lastcall')
            /\ lastcall'.val = Expansion(env_dict, Now, env_dict[lastcall'.key])]_vars

\* What holds of C12: the same of the values that have no mapping with an
\* entry in them.
C12_ListsAndScalars ==
    [][(/\ lastcall'.key \in DOMAIN env_dict
        /\ lastcall'.key \notin DOMAIN cache
        /\ env_dict[lastcall'.key].ty # "str"
        /\ ~HasMapping(env_dict[lastcall'.key])
        /\ Expands(env_dict, Now, env_dict[lastcall'.key])) =>
            /\ Returned(lastcall')
            /\ lastcall'.val = Expansion(env_dict, Now, env_dict[lastcall'.key])]_vars

(***************************************************************************)
(* SpecCond: top-level calls expand(key) on an EnvironmentExpander whose   *)
(* key "t" holds a conditional on the key "flag" between "yes" and "no".   *)
(***************************************************************************)

CondKeys == {"t", "flag", "yes", "no"}

\* What the key "flag" may hold.
FlagPool == {
    NumV(1), Str("1"),
    Str("YES"), Str("yes"), Str("Yes"), Str("Y"), Str("y"),
    Str("TRUE"), Str("true"), Str("True"), Str("ON"), Str("on"), Str("oN"),
    BoolV(TRUE),
    NumV(0), NumV(2), Str("0"), Str("false"), Str("no"), Str("other"), Str(""), Str(" yes"),
    BoolV(FALSE), NullV, ListV(<<>>), ListV(<<Str("1")>>),
    Str("${yes}"), Str("$no"),
    Absent }

\* The text around the conditional in the key "t": before it, the
\* conditional, after it.
CondTemplates == {
    <<"", "${flag?yes:no}", "">>,
    <<"", "${ flag ? yes : no }", "">>,
    <<"pre-", "${flag?yes:no}", "-post">> }

\* What the key "yes" may hold.
YesPool == {Str("Y"), Str("the yes value")}

CondEnvs ==
    {EnvOf(("t" :> Str(tpl[1] \o tpl[2] \o tpl[3])) @@ ("flag" :> f)
              @@ ("yes" :> y) @@ ("no" :> Str("the no value"))) :
        tpl \in CondTemplates, f \in FlagPool, y \in YesPool}

CondInit ==
    /\ env_dict \in CondEnvs
    /\ cache = EmptyMap
    /\ expandset = {}
    /\ lastcall = NoCall
    \* no Dependency called on its own
    /\ rec = NoRecord
    /\ rop = None
    /\ rworld = NoWorld
    /\ rout = NoOutcome
    \* no call of fetch_dependencies
    /\ fpc = "Idle"
    /\ fargs = NoArgs
    /\ fdlog = <<>>
    \* no call of clean_directories
    /\ cpc = "Idle"
    /\ directories = <<>>
    /\ idx = 0
    /\ moved = <<>>
    /\ lastdirectory = None
    /\ rb = 0
    /\ fs = <<>>
    /\ harmed = {}
    /\ raised = NoError
    /\ oplog = <<>>
    \* no collection
    /\ base_env = EmptyMap
    /\ definitions = <<>>
    /\ overrides = <<>>
    /\ dpos = 0
    /\ dependencies = EmptyMap
    /\ bpc = "Idle"
    /\ bexc = NoExc
    /\ bop = NoBatch
    /\ bsubset = NoSubset
    /\ blist = <<>>
    /\ bidx = 0
    /\ failed_dependencies = <<>>
    /\ configure_args = <<>>
    /\ attempted = <<>>
    /\ syslog = <<>>
    /\ bret = NullV

CondNext == \E key \in CondKeys : Resolve(key)

SpecCond == CondInit /\ [][CondNext]_vars

\* ---- what the claim on conditionals speaks of ----

\* The fixed truthy set: 1, boolean true, and "1", "YES", "Y", "TRUE", "ON"
\* in the spellings of any case the environments of SpecCond have.
TruthySet ==
    {NumV(1), BoolV(TRUE)} \cup
    {Str(w) : w \in {"1", "YES", "yes", "Yes", "Y", "y", "TRUE", "true", "True", "ON", "on", "oN"}}

\* The resolved value of a key of SpecCond that holds no conditional.
Resolved(key) == expand(env_dict, NewExpander, key).val

\* The text before and after the conditional in the key "t".
TemplateOf(t) == CHOOSE tpl \in CondTemplates : t = tpl[1] \o tpl[2] \o tpl[3]

\* The branch the claim has the conditional of "t" take.
BranchOf ==
    IF "flag" \in DOMAIN env_dict /\ Resolved("flag") \in TruthySet THEN "yes" ELSE "no"

\* C13: a call for the key "t", whose string holds ${flag?yes:no}, returns
\* the string with the conditional replaced by the value of `yes` when the
\* resolved value of `flag` is in the fixed truthy set, and by the value of
\* `no` for every other value of `flag` and when `flag` is absent.
C13_ConditionalTruthy ==
    lastcall.key = "t" =>
        /\ Returned(lastcall)
        /\ lastcall.val = Str(TemplateOf(env_dict["t"].s)[1] \o Resolved(BranchOf).s
                                \o TemplateOf(env_dict["t"].s)[3])

\* What holds of C13: the same when `flag` is present, or is absent and no
\* earlier call has met it.
C13_UnlessAbsentFlagMetBefore ==
    (lastcall.key = "t" /\ ("flag" \in DOMAIN env_dict \/ "flag" \notin expandset \/ "t" \in DOMAIN cache)) =>
        /\ Returned(lastcall)
        /\ lastcall.val = Str(TemplateOf(env_dict["t"].s)[1] \o Resolved(BranchOf).s
                                \o TemplateOf(env_dict["t"].s)[3])

(***************************************************************************)
(* DEPENDENCY_TYPES, lines 34-96                                           *)
(***************************************************************************)

DEPENDENCY_TYPES ==
    ("ignore" :> ("ignore" :> BoolV(TRUE)))
    @@
    ("openhome" :> (
        "archive-extension" :> Str(".tar.gz") @@
        "archive-prefix" :> Str("") @@
        "archive-suffix" :> Str("") @@
        "binary-repo" :> Str("http://openhome.org/releases/artifacts") @@
        "archive-directory" :> Str("${binary-repo}/${name}/") @@
        "archive-filename" :> Str("${archive-prefix}${name}-${version}-${archive-platform}${archive-suffix}${archive-extension}") @@
        "remote-archive-path" :> Str("${archive-directory}${archive-filename}") @@
        "use-local-archive" :> BoolV(FALSE) @@
        "archive-path" :> Str("${use-local-archive?local-archive-path:remote-archive-path}") @@
        "source-path" :> Str("${linn-git-user}@core.linn.co.uk:/home/git") @@
        "repo-name" :> Str("${name}") @@
        "source-git" :> Str("${source-path}/${repo-name}.git") @@
        "tag" :> Str("${repo-name}_${version}") @@
        "any-platform" :> Str("AnyPlatform") @@
        "platform-specific" :> BoolV(TRUE) @@
        "archive-platform" :> Str("${platform-specific?platform:any-platform}") @@
        "dest" :> Str("dependencies/${archive-platform}/") @@
        "configure-args" :> ListV(<<>>) @@
        "strip-archive-dirs" :> NumV(0)))
    @@
    ("external" :> (
        "binary-repo" :> Str("http://openhome.org/releases/artifacts") @@
        "source-git" :> NullV @@
        "any-platform" :> Str("AnyPlatform") @@
        "platform-specific" :> BoolV(TRUE) @@
        "archive-platform" :> Str("${platform-specific?platform:any-platform}") @@
        "archive-path" :> Str("${binary-repo}/${archive-platform}/${archive-filename}") @@
        "dest" :> Str("dependencies/${archive-platform}/") @@
        "configure-args" :> ListV(<<>>) @@
        "strip-archive-dirs" :> NumV(0)))

(***************************************************************************)
(* Dependency and DependencyCollection, lines 290-430                      *)
(***************************************************************************)

\* dict.update: d with every entry of u written over it.
Update(d, u) == [k \in DOMAIN d \cup DOMAIN u |-> IF k \in DOMAIN u THEN u[k] ELSE d[k]]

\* Python's truth value of a value (`if env['ignore']`, `len(x) > 0`).
Truthy(value) ==
    CASE value.ty = "str" -> value.s # ""
      [] value.ty = "num" -> value.n # 0
      [] value.ty = "bool" -> value.b
      [] value.ty = "list" -> value.l # <<>>
      [] value.ty = "dict" -> DOMAIN value.d # {}
      [] OTHER -> FALSE

\* Dependency.__init__, lines 291-294: a fresh expander over the environment.
Dependency(name, environment, has_overrides) ==
    [env |-> environment,
     has_overrides |-> has_overrides,
     cache |-> EmptyMap,
     expandset |-> {}]

\* create_dependency with the layers of lines 374 and 375 in the other order.
create_dependency_DefinitionLast(base, deps, defn, override) ==
    IF "type" \in DOMAIN defn /\ defn["type"].s \notin DOMAIN DEPENDENCY_TYPES
    THEN [dependencies |-> deps, exc |-> KeyError(defn["type"].s)]
    ELSE LET env1 == IF "type" \in DOMAIN defn
                     THEN Update(base, DEPENDENCY_TYPES[defn["type"].s])
                     ELSE base
             env3 == Update(Update(env1, override), defn)
         IN IF "ignore" \in DOMAIN env3 /\ Truthy(env3["ignore"])
            THEN [dependencies |-> deps, exc |-> NoExc]
            ELSE IF "name" \notin DOMAIN env3
            THEN [dependencies |-> deps,
                  exc |-> [exc |-> "ValueError:Dependency definition contains no name", arg |-> ""]]
            ELSE [dependencies |->
                      Update(deps, env3["name"].s :>
                                Dependency(env3["name"], env3, DOMAIN override # {})),
                  exc |-> NoExc]

\* create_dependency without the return of lines 376-377.
create_dependency_NoIgnore(base, deps, defn, override) ==
    IF "type" \in DOMAIN defn /\ defn["type"].s \notin DOMAIN DEPENDENCY_TYPES
    THEN [dependencies |-> deps, exc |-> KeyError(defn["type"].s)]
    ELSE LET env1 == IF "type" \in DOMAIN defn
                     THEN Update(base, DEPENDENCY_TYPES[defn["type"].s])
                     ELSE base
             env3 == Update(Update(env1, defn), override)
         IN IF "name" \notin DOMAIN env3
            THEN [dependencies |-> deps,
                  exc |-> [exc |-> "ValueError:Dependency definition contains no name", arg |-> ""]]
            ELSE [dependencies |->
                      Update(deps, env3["name"].s :>
                                Dependency(env3["name"], env3, DOMAIN override # {})),
                  exc |-> NoExc]

\* create_dependency, lines 367-382, on the dict `deps` of a collection whose
\* base environment is base: the dict it leaves and the exception it raises.
create_dependency(base, deps, defn, override) ==
    IF "type" \in DOMAIN defn /\ defn["type"].s \notin DOMAIN DEPENDENCY_TYPES
    THEN [dependencies |-> deps, exc |-> KeyError(defn["type"].s)]
    ELSE LET env0 == Update(EmptyMap, base)
             env1 == IF "type" \in DOMAIN defn
                     THEN Update(env0, DEPENDENCY_TYPES[defn["type"].s])
                     ELSE env0
             env2 == Update(env1, defn)
             env3 == Update(env2, override)
         IN IF "ignore" \in DOMAIN env3 /\ Truthy(env3["ignore"])
            THEN [dependencies |-> deps, exc |-> NoExc]
            ELSE IF "name" \notin DOMAIN env3
            THEN [dependencies |-> deps,
                  exc |-> [exc |-> "ValueError:Dependency definition contains no name", arg |-> ""]]
            ELSE [dependencies |->
                      Update(deps, env3["name"].s :>
                                Dependency(env3["name"], env3, DOMAIN override # {})),
                  exc |-> NoExc]

\* DependencyCollection.__contains__, lines 383-384
__contains__(deps, key) == key \in DOMAIN deps

\* overrides_by_name = dict((dep['name'], dep) for dep in overrides), line 425
RECURSIVE overrides_by_name(_)
overrides_by_name(ovs) ==
    IF ovs = <<>> THEN EmptyMap
    ELSE Update(overrides_by_name(SubSeq(ovs, 1, Len(ovs) - 1)),
                ovs[Len(ovs)]["name"].s :> DictV(ovs[Len(ovs)]))

\* overrides_by_name.get(name, {}), line 428
OverrideFor(ovs, name) ==
    IF name \in DOMAIN overrides_by_name(ovs) THEN overrides_by_name(ovs)[name].d ELSE EmptyMap

\* The expander of a Dependency, and the Dependency with its expander left in state st.
ExpanderOf(dep) == [cache |-> dep.cache, expandset |-> dep.expandset]
WithExpander(dep, st) == [dep EXCEPT !.cache = st.cache, !.expandset = st.expandset]

\* What a method of Dependency leaves: the Dependency, the value returned (when
\* exc is NoExc), the exception raised, and the calls it made on the world.
Outcome(dep, st, ret, exc, calls) ==
    [dep |-> WithExpander(dep, st), ret |-> ret, exc |-> exc, calls |-> calls]

\* The last position of ch in s, 0 when there is none.
LastFind(s, ch) ==
    LET hits == {j \in 1..Len(s) : Char(s, j) = ch}
    IN IF hits = {} THEN 0 ELSE Max(hits)

\* os.path.splitext(name)[1]: from the last dot of the last path component on.
SplitExt(name) ==
    LET base == LastFind(name, "/") + 1
        dot == LastFind(name, ".")
    IN IF dot > base THEN SubSeq(name, dot, Len(name)) ELSE ""

\* openarchive, lines 268-273: a zipfile.ZipFile or a tarfile.TarFile by the name's extension.
ArchiveKind(name) ==
    IF Upper(SplitExt(name)) \in {".ZIP", ".NUPKG", ".JAR"} THEN "zip" ELSE "tar"

\* os.path.abspath(path) for the paths of the model: relative paths are taken
\* from the working directory, and a trailing slash is dropped.
Cwd == "/work"
Abspath(path) ==
    LET full == IF Char(path, 1) = "/" THEN path ELSE Cwd \o "/" \o path
    IN IF Len(full) > 1 /\ Char(full, Len(full)) = "/" THEN SubSeq(full, 1, Len(full) - 1)
       ELSE full

\* strip_dirs > 0, line 282, as Python 2 orders values: a number by its value
\* (True is 1), None below every number, every other type above.
StripPositive(value) ==
    CASE value.ty = "num" -> value.n > 0
      [] value.ty = "bool" -> value.b
      [] value.ty = "null" -> FALSE
      [] OTHER -> TRUE

\* What the world answers to one Dependency.fetch.
FetchWorlds ==
    {w \in [open : {"ok", "IOError", "error"},
            makedirs : {"created", "exists", "denied"},
            extractall : {"ok", "error"}] :
        \* what is never asked has one answer
        w.open # "ok" => w.makedirs = "created" /\ w.extractall = "ok"}

\* extract_archive that leaves the strip count of a zip archive aside.
extract_archive_IgnoreStrip(kind, local_path, strip_dirs, w) ==
    IF w.extractall = "ok"
    THEN [exc |-> NoExc, calls |-> <<<<"extractall", local_path>>>>]
    ELSE [exc |-> [exc |-> "Exception:extractall", arg |-> local_path],
          calls |-> <<<<"extractall-failed", local_path>>>>]

\* extract_archive, lines 275-287, on an archive of the given kind.
extract_archive(kind, local_path, strip_dirs, w) ==
    IF StripPositive(strip_dirs) /\ kind # "tar"
    THEN [exc |-> [exc |-> "Exception:Cannot strip leading directories from zip archives.", arg |-> ""],
          calls |-> <<>>]
    ELSE IF w.extractall = "ok"
    THEN [exc |-> NoExc, calls |-> <<<<"extractall", local_path>>>>]
    ELSE [exc |-> [exc |-> "Exception:extractall", arg |-> local_path],
          calls |-> <<<<"extractall-failed", local_path>>>>]

\* fetch_300 without the handler of lines 304-306: the IOError leaves fetch.
fetch_300_NoIOErrorHandler(dep, w, r1, r2, r3, r4, x) ==
    IF ~Ok(r4) THEN Outcome(dep, StateOf(r4), FALSE, r4.exc, <<>>)
    ELSE IF r1.val.ty # "str"
         THEN Outcome(dep, StateOf(r4), FALSE, AttributeError("startswith"), <<>>)
    ELSE IF w.open # "ok"
         THEN Outcome(dep, StateOf(r4), FALSE,
                      [exc |-> "Exception:open", arg |-> r1.val.s],
                      <<<<"open-failed", r1.val.s>>>>)
    ELSE Outcome(dep, StateOf(r4), Ok(x), x.exc,
                 <<<<"open", r1.val.s>>, <<"makedirs", Abspath(r2.val.s), w.makedirs>>>> \o x.calls)

\* fetch_300 whose handler of lines 309-313 lets pass only the error of a
\* directory that exists.
fetch_300_MakedirsFatal(dep, w, r1, r2, r3, r4, x) ==
    IF ~Ok(r4) THEN Outcome(dep, StateOf(r4), FALSE, r4.exc, <<>>)
    ELSE IF r1.val.ty # "str"
         THEN Outcome(dep, StateOf(r4), FALSE, AttributeError("startswith"), <<>>)
    ELSE IF w.open = "IOError"
         THEN Outcome(dep, StateOf(r4), FALSE, NoExc, <<<<"open-failed", r1.val.s>>>>)
    ELSE IF w.open = "error"
         THEN Outcome(dep, StateOf(r4), FALSE,
                      [exc |-> "Exception:open", arg |-> r1.val.s],
                      <<<<"open-failed", r1.val.s>>>>)
    ELSE IF w.makedirs = "denied"
         THEN Outcome(dep, StateOf(r4), FALSE,
                      [exc |-> "OSError", arg |-> Abspath(r2.val.s)],
                      <<<<"open", r1.val.s>>, <<"makedirs", Abspath(r2.val.s), w.makedirs>>>>)
    ELSE Outcome(dep, StateOf(r4), Ok(x), x.exc,
                 <<<<"open", r1.val.s>>, <<"makedirs", Abspath(r2.val.s), w.makedirs>>>> \o x.calls)

\* Dependency.fetch, lines 295-319, statement by statement: r1..r4 are what
\* the expansions of lines 296-299 left.
fetch_300(dep, w, r1, r2, r3, r4, x) ==
    IF ~Ok(r4) THEN Outcome(dep, StateOf(r4), FALSE, r4.exc, <<>>)
    ELSE IF r1.val.ty # "str"
         THEN Outcome(dep, StateOf(r4), FALSE, AttributeError("startswith"), <<>>)
    ELSE IF w.open = "IOError"
         THEN Outcome(dep, StateOf(r4), FALSE, NoExc, <<<<"open-failed", r1.val.s>>>>)
    ELSE IF w.open = "error"
         THEN Outcome(dep, StateOf(r4), FALSE,
                      [exc |-> "Exception:open", arg |-> r1.val.s],
                      <<<<"open-failed", r1.val.s>>>>)
    ELSE Outcome(dep, StateOf(r4), Ok(x), x.exc,
                 <<<<"open", r1.val.s>>, <<"makedirs", Abspath(r2.val.s), w.makedirs>>>> \o x.calls)

fetch_299(dep, w, r1, r2, r3) ==
    IF ~Ok(r3) THEN Outcome(dep, StateOf(r3), FALSE, r3.exc, <<>>)
    ELSE fetch_300(dep, w, r1, r2, r3,
                   \* self.name, for the log line
                   expand(dep.env, StateOf(r3), "name"),
                   extract_archive(ArchiveKind(r1.val.s), Abspath(r2.val.s), r3.val, w))

fetch_298(dep, w, r1, r2) ==
    IF ~Ok(r2) THEN Outcome(dep, StateOf(r2), FALSE, r2.exc, <<>>)
    ELSE IF r2.val.ty # "str" THEN Outcome(dep, StateOf(r2), FALSE, TypeError, <<>>)
    ELSE fetch_299(dep, w, r1, r2, expand(dep.env, StateOf(r2), "strip-archive-dirs"))

fetch_297(dep, w, r1) ==
    IF ~Ok(r1) THEN Outcome(dep, StateOf(r1), FALSE, r1.exc, <<>>)
    ELSE fetch_298(dep, w, r1, expand(dep.env, StateOf(r1), "dest"))

fetch(dep, w) == fetch_297(dep, w, expand(dep.env, ExpanderOf(dep), "archive-path"))

\* What the world answers to one Dependency.checkout: what stands at ../name,
\* and how the two git commands end.
CheckoutWorlds ==
    {w \in [srcdir : {"absent", "dir", "file"},
            first : {"ok", "CalledProcessError"},
            checkout : {"ok", "CalledProcessError"}] :
        \* what is never asked has one answer
        /\ w.srcdir = "file" => w.first = "ok"
        /\ w.first # "ok" => w.checkout = "ok"}

\* checkout_337 that goes on to `git checkout` after a clone or fetch that failed.
checkout_337_IgnoreFirstFailure(dep, w, r1, r2, r3, firstcmd) ==
    IF ~Ok(r3) THEN Outcome(dep, StateOf(r3), FALSE, r3.exc, <<>>)
    ELSE IF w.srcdir = "file" THEN Outcome(dep, StateOf(r3), FALSE, NoExc, <<>>)
    ELSE Outcome(dep, StateOf(r3), w.checkout = "ok", NoExc,
                 <<firstcmd, <<"git checkout", r3.val, r1.val>>>>)

\* Dependency.checkout, lines 329-352, statement by statement: r1..r3 are
\* what the expansions of name, source-git and tag left.
checkout_337(dep, w, r1, r2, r3, firstcmd) ==
    IF ~Ok(r3) THEN Outcome(dep, StateOf(r3), FALSE, r3.exc, <<>>)
    ELSE IF w.srcdir = "file" THEN Outcome(dep, StateOf(r3), FALSE, NoExc, <<>>)
    ELSE IF w.first # "ok" THEN Outcome(dep, StateOf(r3), FALSE, NoExc, <<firstcmd>>)
    ELSE Outcome(dep, StateOf(r3), w.checkout = "ok", NoExc,
                 <<firstcmd, <<"git checkout", r3.val, r1.val>>>>)

checkout_332(dep, w, r1, r2) ==
    IF ~Ok(r2) THEN Outcome(dep, StateOf(r2), FALSE, r2.exc, <<>>)
    ELSE IF r2.val.ty = "null" THEN Outcome(dep, StateOf(r2), FALSE, NoExc, <<>>)
    ELSE IF r1.val.ty # "str" THEN Outcome(dep, StateOf(r2), FALSE, TypeError, <<>>)
    ELSE checkout_337(dep, w, r1, r2, expand(dep.env, StateOf(r2), "tag"),
                      IF w.srcdir = "absent" THEN <<"git clone", r2.val, r1.val>>
                      ELSE <<"git fetch origin", r1.val>>)

checkout_331(dep, w, r1) ==
    IF ~Ok(r1) THEN Outcome(dep, StateOf(r1), FALSE, r1.exc, <<>>)
    ELSE checkout_332(dep, w, r1, expand(dep.env, StateOf(r1), "source-git"))

checkout(dep, w) == checkout_331(dep, w, expand(dep.env, ExpanderOf(dep), "name"))

\* expand_configure_args, lines 357-358
Outcome_358(dep, r) == Outcome(dep, StateOf(r), r.val, r.exc, <<>>)
expand_configure_args(dep) == Outcome_358(dep, expand(dep.env, ExpanderOf(dep), "configure-args"))

\* ", ".join(names), line 394
RECURSIVE JoinNames(_, _)
JoinNames(names, sep) ==
    IF names = <<>> THEN ""
    ELSE IF Len(names) = 1 THEN names[1]
    ELSE names[1] \o sep \o JoinNames(Tail(names), sep)

\* _filter, lines 389-395, for a subset that is a list: the names it asks for
\* that the collection lacks, in the order asked.
missing_dependencies(deps, subset) ==
    SelectSeq(subset, LAMBDA name : name \notin DOMAIN deps)

FilterError(missing) ==
    [exc |-> "Exception", arg |-> "No entries in dependency file named: " \o JoinNames(missing, ", ") \o "."]

(***************************************************************************)
(* SpecBuild: read_json_dependencies, lines 421-430, one definition per    *)
(* step, over definitions, overrides and a base environment drawn from     *)
(* the pools below.                                                        *)
(***************************************************************************)

\* Bounds of the build's model: the lengths of the two JSON lists.
MaxDefs == 2
MaxOverrides == 2

\* The base environment: the platform, and keys that type defaults,
\* definitions and overrides define too.
BaseEnvs == {
    ("platform" :> Str("Linux-x64")) @@ ("linn-git-user" :> Str("joe"))
        @@ ("binary-repo" :> Str("http://mirror")) @@ ("dest" :> Str("base-dest/"))
        @@ ("archive-filename" :> Str("base.zip")) }

DefA == ("name" :> Str("A")) @@ ("type" :> Str("external")) @@ ("archive-filename" :> Str("a.zip"))
DefB == ("name" :> Str("B")) @@ ("type" :> Str("openhome")) @@ ("version" :> Str("1.0"))
            @@ ("configure-args" :> ListV(<<Str("--with-b=${dest}")>>))
DefC == ("name" :> Str("C")) @@ ("archive-path" :> Str("${binary-repo}/c.tar.gz"))
            @@ ("binary-repo" :> Str("http://c-repo")) @@ ("strip-archive-dirs" :> NumV(0))
DefA2 == ("name" :> Str("A")) @@ ("type" :> Str("openhome")) @@ ("version" :> Str("2.0"))
            @@ ("dest" :> Str("second/"))
DefX == ("name" :> Str("X")) @@ ("type" :> Str("ignore"))
DefNameless == ("type" :> Str("external")) @@ ("archive-filename" :> Str("n.zip"))

DefPool == {DefA, DefB, DefC, DefA2, DefX, DefNameless}

OvA == ("name" :> Str("A")) @@ ("archive-filename" :> Str("a2.zip"))
OvA2 == ("name" :> Str("A")) @@ ("dest" :> Str("elsewhere/")) @@ ("type" :> Str("external"))
OvB == ("name" :> Str("B")) @@ ("platform-specific" :> BoolV(FALSE)) @@ ("binary-repo" :> Str("http://local"))
OvC == ("name" :> Str("C")) @@ ("ignore" :> BoolV(TRUE))

OvPool == {OvA, OvA2, OvB, OvC}

BuildInit ==
    /\ base_env \in BaseEnvs
    /\ definitions \in SeqsUpTo(DefPool, MaxDefs)
    /\ overrides \in SeqsUpTo(OvPool, MaxOverrides)
    /\ dpos = 1
    /\ dependencies = EmptyMap
    /\ bpc = "Building"
    /\ bexc = NoExc
    \* no batch call
    /\ bop = NoBatch
    /\ bsubset = NoSubset
    /\ blist = <<>>
    /\ bidx = 0
    /\ failed_dependencies = <<>>
    /\ configure_args = <<>>
    /\ attempted = <<>>
    /\ syslog = <<>>
    /\ bret = NullV
    \* no call of clean_directories
    /\ cpc = "Idle"
    /\ directories = <<>>
    /\ idx = 0
    /\ moved = <<>>
    /\ lastdirectory = None
    /\ rb = 0
    /\ fs = <<>>
    /\ harmed = {}
    /\ raised = NoError
    /\ oplog = <<>>
    \* no expander of its own
    /\ env_dict = EmptyMap
    /\ cache = EmptyMap
    /\ expandset = {}
    /\ lastcall = NoCall
    \* no Dependency called on its own
    /\ rec = NoRecord
    /\ rop = None
    /\ rworld = NoWorld
    /\ rout = NoOutcome
    \* no call of fetch_dependencies
    /\ fpc = "Idle"
    /\ fargs = NoArgs
    /\ fdlog = <<>>

\* One turn of the loop of lines 426-429 that ends well.
CreateNext ==
    /\ bpc = "Building"
    /\ dpos <= Len(definitions)
    /\ "name" \in DOMAIN definitions[dpos]
    /\ LET d == definitions[dpos]
           r == create_dependency(base_env, dependencies, d, OverrideFor(overrides, d["name"].s))
       IN /\ r.exc = NoExc
          /\ dependencies' = r.dependencies
    /\ dpos' = dpos + 1
    /\ UNCHANGED <<base_env, definitions, overrides, bpc, bexc, batchVars, notColl>>

\* One turn of the loop that raises: d['name'] of line 427, or create_dependency.
CreateRaises ==
    /\ bpc = "Building"
    /\ dpos <= Len(definitions)
    /\ LET d == definitions[dpos]
       IN IF "name" \notin DOMAIN d THEN bexc' = KeyError("name")
          ELSE LET r == create_dependency(base_env, dependencies, d, OverrideFor(overrides, d["name"].s))
               IN r.exc # NoExc /\ bexc' = r.exc
    /\ bpc' = "BuildFailed"
    /\ UNCHANGED <<base_env, definitions, overrides, dpos, dependencies, batchVars, notColl>>

\* line 430: return collection
BuildDone ==
    /\ bpc = "Building"
    /\ dpos > Len(definitions)
    /\ bpc' = "Ready"
    /\ UNCHANGED <<base_env, definitions, overrides, dpos, dependencies, bexc, batchVars, notColl>>

BuildNext ==
    \/ CreateNext
    \/ CreateRaises
    \/ BuildDone

SpecBuild == BuildInit /\ [][BuildNext]_vars

(***************************************************************************)
(* SpecBatch: one batch call (fetch, checkout or get_args, lines 389-419)  *)
(* on a collection that read_json_dependencies built, one record per step. *)
(***************************************************************************)

\* Bound of the batch's model: the length of the argument `subset`.
MaxSubset == 2

\* An openhome definition without `version`: archive-path, tag and its
\* configure-args cannot be resolved.
DefD == ("name" :> Str("D")) @@ ("type" :> Str("openhome"))
            @@ ("configure-args" :> ListV(<<Str("--d-version=${version}")>>))

\* A definition of the ignored type under the name of DefB, and an override
\* that has DefD ignored.
DefBOff == ("name" :> Str("B")) @@ ("type" :> Str("ignore"))
OvD == ("name" :> Str("D")) @@ ("ignore" :> BoolV(TRUE))

\* The dependency files and the override files the collections are built from.
BatchDefs == {
    <<>>,
    <<DefA>>,
    <<DefA, DefB>>,
    <<DefB, DefA, DefD>>,
    <<DefA, DefBOff>>,
    <<DefB, DefBOff>>,
    <<DefBOff, DefB>>,
    <<DefD, DefBOff>> }
BatchOverrides == {<<>>, <<OvD>>}
BatchBase == ("platform" :> Str("Linux-x64")) @@ ("linn-git-user" :> Str("joe"))

\* The names a caller asks for: names of definitions, and one that no definition has.
SubsetNames == {"A", "B", "D", "Z"}

\* subset=[...]
Subset(names) == [given |-> TRUE, names |-> names]
Subsets == {NoSubset} \cup {Subset(names) : names \in SeqsUpTo(SubsetNames, MaxSubset)}

\* read_json_dependencies, lines 421-430, as one function: the collection's
\* dict after the definitions defs[1..n].
RECURSIVE read_json_dependencies(_, _, _, _)
read_json_dependencies(base, defs, ovs, n) ==
    IF n = 0 THEN [dependencies |-> EmptyMap, exc |-> NoExc]
    ELSE LET before == read_json_dependencies(base, defs, ovs, n - 1)
         IN IF before.exc # NoExc THEN before
            ELSE IF "name" \notin DOMAIN defs[n]
            THEN [dependencies |-> before.dependencies, exc |-> KeyError("name")]
            ELSE create_dependency(base, before.dependencies, defs[n],
                                   OverrideFor(ovs, defs[n]["name"].s))

\* The orders in which the values() of a dict can come.
Orders(names) ==
    {order \in [1..Cardinality(names) -> names] :
        \A i, j \in 1..Cardinality(names) : i # j => order[i] # order[j]}

BatchInit ==
    /\ base_env = BatchBase
    /\ definitions \in BatchDefs
    /\ overrides \in BatchOverrides
    /\ dpos = Len(definitions) + 1
    /\ dependencies = read_json_dependencies(base_env, definitions, overrides, Len(definitions)).dependencies
    /\ bpc = "Ready"
    /\ bexc = NoExc
    /\ bop = NoBatch
    /\ bsubset = NoSubset
    /\ blist = <<>>
    /\ bidx = 0
    /\ failed_dependencies = <<>>
    /\ configure_args = <<>>
    /\ attempted = <<>>
    /\ syslog = <<>>
    /\ bret = NullV
    \* no call of clean_directories
    /\ cpc = "Idle"
    /\ directories = <<>>
    /\ idx = 0
    /\ moved = <<>>
    /\ lastdirectory = None
    /\ rb = 0
    /\ fs = <<>>
    /\ harmed = {}
    /\ raised = NoError
    /\ oplog = <<>>
    \* no expander of its own
    /\ env_dict = EmptyMap
    /\ cache = EmptyMap
    /\ expandset = {}
    /\ lastcall = NoCall
    \* no Dependency called on its own
    /\ rec = NoRecord
    /\ rop = None
    /\ rworld = NoWorld
    /\ rout = NoOutcome
    \* no call of fetch_dependencies
    /\ fpc = "Idle"
    /\ fargs = NoArgs
    /\ fdlog = <<>>

\* _filter raises, lines 392-394, in any of the three batch methods.
FilterRaises(op, subset) ==
    /\ bpc = "Ready"
    /\ subset.given
    /\ missing_dependencies(dependencies, subset.names) # <<>>
    /\ bop' = op
    /\ bsubset' = subset
    /\ bpc' = "Raised"
    /\ bexc' = FilterError(missing_dependencies(dependencies, subset.names))
    /\ UNCHANGED <<base_env, definitions, overrides, dpos, dependencies, blist, bidx,
                   failed_dependencies, configure_args, attempted, syslog, bret, notColl>>

\* BatchStart with a _filter that leaves out the names the collection lacks.
BatchStart_SkipMissing(op, subset) ==
    /\ bpc = "Ready"
    /\ IF subset.given
       THEN blist' = SelectSeq(subset.names, LAMBDA name : name \in DOMAIN dependencies)
       ELSE blist' \in Orders(DOMAIN dependencies)
    /\ bop' = op
    /\ bsubset' = subset
    /\ bidx' = 1
    /\ failed_dependencies' = <<>>
    /\ configure_args' = <<>>
    /\ bpc' = "Running"
    /\ UNCHANGED <<base_env, definitions, overrides, dpos, dependencies, bexc,
                   attempted, syslog, bret, notColl>>

\* _filter returns, lines 391 and 395, and the method goes on to its loop.
BatchStart(op, subset) ==
    /\ bpc = "Ready"
    /\ IF subset.given
       THEN /\ missing_dependencies(dependencies, subset.names) = <<>>
            /\ blist' = subset.names
       ELSE blist' \in Orders(DOMAIN dependencies)
    /\ bop' = op
    /\ bsubset' = subset
    /\ bidx' = 1
    /\ failed_dependencies' = <<>>
    /\ configure_args' = <<>>
    /\ bpc' = "Running"
    /\ UNCHANGED <<base_env, definitions, overrides, dpos, dependencies, bexc,
                   attempted, syslog, bret, notColl>>

\* RecordStep with a loop that returns False at the first record that fails.
RecordStep_AbortOnFailure(o, name) ==
    /\ o.exc = NoExc
    /\ o.ret \/ Ok(name)
    /\ dependencies' = [dependencies EXCEPT ![blist[bidx]] =
                            IF o.ret THEN o.dep ELSE WithExpander(o.dep, StateOf(name))]
    /\ failed_dependencies' = IF o.ret THEN failed_dependencies
                              ELSE Append(failed_dependencies, name.val.s)
    /\ attempted' = Append(attempted, [key |-> blist[bidx],
                                       returned |-> IF o.ret THEN "True" ELSE "False"])
    /\ syslog' = syslog \o o.calls
    /\ IF o.ret THEN bidx' = bidx + 1 /\ UNCHANGED <<bpc, bret>>
       ELSE bpc' = "Returned" /\ bret' = BoolV(FALSE) /\ UNCHANGED bidx
    /\ UNCHANGED <<base_env, definitions, overrides, dpos, bexc, bop, bsubset, blist,
                   configure_args, notColl>>

\* `if not d.fetch(): failed_dependencies.append(d.name)` when nothing raises:
\* o is what d.fetch() or d.checkout() left, name what d.name left after it.
RecordStep(o, name) ==
    /\ o.exc = NoExc
    /\ o.ret \/ Ok(name)
    /\ dependencies' = [dependencies EXCEPT ![blist[bidx]] =
                            IF o.ret THEN o.dep ELSE WithExpander(o.dep, StateOf(name))]
    /\ failed_dependencies' = IF o.ret THEN failed_dependencies
                              ELSE Append(failed_dependencies, name.val.s)
    /\ attempted' = Append(attempted, [key |-> blist[bidx],
                                       returned |-> IF o.ret THEN "True" ELSE "False"])
    /\ syslog' = syslog \o o.calls
    /\ bidx' = bidx + 1
    /\ UNCHANGED <<base_env, definitions, overrides, dpos, bpc, bexc, bop, bsubset, blist,
                   configure_args, bret, notColl>>

\* The same statement when d.fetch(), d.checkout() or d.name raises: the
\* methods have no handler, so the batch call ends with that exception.
RecordRaises(o, name) ==
    /\ o.exc # NoExc \/ (~o.ret /\ ~Ok(name))
    /\ bexc' = IF o.exc # NoExc THEN o.exc ELSE name.exc
    /\ dependencies' = [dependencies EXCEPT ![blist[bidx]] =
                            IF o.exc # NoExc THEN o.dep ELSE WithExpander(o.dep, StateOf(name))]
    /\ attempted' = Append(attempted, [key |-> blist[bidx], returned |-> "raised"])
    /\ syslog' = syslog \o o.calls
    /\ bpc' = "Raised"
    /\ UNCHANGED <<base_env, definitions, overrides, dpos, bop, bsubset, blist, bidx,
                   failed_dependencies, configure_args, bret, notColl>>

\* d.name, lines 320-322, on what a method left
NameAfter(o) == expand(o.dep.env, ExpanderOf(o.dep), "name")

RecordTurn(o) == RecordStep(o, NameAfter(o))
RecordTurnRaises(o) == RecordRaises(o, NameAfter(o))

\* One turn of the loop of DependencyCollection.fetch, lines 403-405.
FetchStep(w) ==
    /\ bpc = "Running" /\ bop = "fetch" /\ bidx <= Len(blist)
    /\ RecordTurn(fetch(dependencies[blist[bidx]], w))

FetchRaises(w) ==
    /\ bpc = "Running" /\ bop = "fetch" /\ bidx <= Len(blist)
    /\ RecordTurnRaises(fetch(dependencies[blist[bidx]], w))

\* One turn of the loop of DependencyCollection.checkout, lines 413-415.
CheckoutStep(w) ==
    /\ bpc = "Running" /\ bop = "checkout" /\ bidx <= Len(blist)
    /\ RecordTurn(checkout(dependencies[blist[bidx]], w))

CheckoutRaises(w) ==
    /\ bpc = "Running" /\ bop = "checkout" /\ bidx <= Len(blist)
    /\ RecordTurnRaises(checkout(dependencies[blist[bidx]], w))

\* One term of the sum of get_args, line 398: o is what expand_configure_args left.
ArgsTerm(o) ==
    /\ o.exc = NoExc
    /\ o.ret.ty = "list"
    /\ dependencies' = [dependencies EXCEPT ![blist[bidx]] = o.dep]
    /\ configure_args' = configure_args \o o.ret.l
    /\ attempted' = Append(attempted, [key |-> blist[bidx], returned |-> "value"])
    /\ bidx' = bidx + 1
    /\ UNCHANGED <<base_env, definitions, overrides, dpos, bpc, bexc, bop, bsubset, blist,
                   failed_dependencies, syslog, bret, notColl>>

\* The term raises, or is no list and the sum raises.
ArgsTermRaises(o) ==
    /\ o.exc # NoExc \/ o.ret.ty # "list"
    /\ bexc' = IF o.exc # NoExc THEN o.exc ELSE TypeError
    /\ dependencies' = [dependencies EXCEPT ![blist[bidx]] = o.dep]
    /\ attempted' = Append(attempted, [key |-> blist[bidx], returned |-> "raised"])
    /\ bpc' = "Raised"
    /\ UNCHANGED <<base_env, definitions, overrides, dpos, bop, bsubset, blist, bidx,
                   failed_dependencies, configure_args, syslog, bret, notColl>>

ArgsStep ==
    /\ bpc = "Running" /\ bop = "get_args" /\ bidx <= Len(blist)
    /\ ArgsTerm(expand_configure_args(dependencies[blist[bidx]]))

ArgsRaises ==
    /\ bpc = "Running" /\ bop = "get_args" /\ bidx <= Len(blist)
    /\ ArgsTermRaises(expand_configure_args(dependencies[blist[bidx]]))

\* After the loop: lines 406-409, 416-419 and 399.
BatchEnd ==
    /\ bpc = "Running" /\ bidx > Len(blist)
    /\ bret' = IF bop = "get_args" THEN ListV(configure_args)
               ELSE BoolV(failed_dependencies = <<>>)
    /\ bpc' = "Returned"
    /\ UNCHANGED <<base_env, definitions, overrides, dpos, dependencies, bexc, bop, bsubset,
                   blist, bidx, failed_dependencies, configure_args, attempted, syslog, notColl>>

BatchOps == {"fetch", "checkout", "get_args"}

BatchNext ==
    \/ \E op \in BatchOps, subset \in Subsets : FilterRaises(op, subset)
    \/ \E op \in BatchOps, subset \in Subsets : BatchStart(op, subset)
    \/ \E w \in FetchWorlds : FetchStep(w)
    \/ \E w \in FetchWorlds : FetchRaises(w)
    \/ \E w \in CheckoutWorlds : CheckoutStep(w)
    \/ \E w \in CheckoutWorlds : CheckoutRaises(w)
    \/ ArgsStep
    \/ ArgsRaises
    \/ BatchEnd

SpecBatch == BatchInit /\ [][BatchNext]_vars

(***************************************************************************)
(* SpecRecord: the methods fetch and checkout of one Dependency, lines     *)
(* 295-319 and 329-352, called one after the other on a record that        *)
(* create_dependency built.                                                *)
(***************************************************************************)

\* An external definition of a zip archive that asks for one leading
\* directory to be stripped, and an openhome one of a tar archive that does.
DefZipStrip == ("name" :> Str("Z")) @@ ("type" :> Str("external"))
                   @@ ("archive-filename" :> Str("z.zip")) @@ ("strip-archive-dirs" :> NumV(1))
DefTarStrip == ("name" :> Str("T")) @@ ("type" :> Str("openhome")) @@ ("version" :> Str("3.1"))
                   @@ ("strip-archive-dirs" :> NumV(1))
\* A NuGet package with the strip count as a boolean, and a jar with none.
DefNupkg == ("name" :> Str("N")) @@ ("type" :> Str("external"))
                @@ ("archive-filename" :> Str("n.NuPkg")) @@ ("strip-archive-dirs" :> BoolV(TRUE))
DefJar == ("name" :> Str("J")) @@ ("type" :> Str("external"))
              @@ ("archive-filename" :> Str("j.jar")) @@ ("source-git" :> Str("git://host/j.git"))
              @@ ("tag" :> Str("v${name}"))
\* An openhome definition whose source repository is set to null.
DefNoGit == ("name" :> Str("G")) @@ ("type" :> Str("openhome")) @@ ("version" :> Str("0.9"))
                @@ ("source-git" :> NullV)

\* DefC has no type and so no `source-git`; DefD has no `version`.
RecordDefs == {DefA, DefB, DefC, DefD, DefZipStrip, DefTarStrip, DefNupkg, DefJar, DefNoGit}

\* The one record of the collection built from one definition.
RecordOf(defn) ==
    create_dependency(BatchBase, EmptyMap, defn, EmptyMap).dependencies[defn["name"].s]

RecordInit ==
    /\ rec \in {RecordOf(defn) : defn \in RecordDefs}
    /\ rop = None
    /\ rworld = NoWorld
    /\ rout = NoOutcome
    \* no call of fetch_dependencies
    /\ fpc = "Idle"
    /\ fargs = NoArgs
    /\ fdlog = <<>>
    \* no call of clean_directories
    /\ cpc = "Idle"
    /\ directories = <<>>
    /\ idx = 0
    /\ moved = <<>>
    /\ lastdirectory = None
    /\ rb = 0
    /\ fs = <<>>
    /\ harmed = {}
    /\ raised = NoError
    /\ oplog = <<>>
    \* no expander of its own
    /\ env_dict = EmptyMap
    /\ cache = EmptyMap
    /\ expandset = {}
    /\ lastcall = NoCall
    \* no collection
    /\ base_env = EmptyMap
    /\ definitions = <<>>
    /\ overrides = <<>>
    /\ dpos = 0
    /\ dependencies = EmptyMap
    /\ bpc = "Idle"
    /\ bexc = NoExc
    /\ bop = NoBatch
    /\ bsubset = NoSubset
    /\ blist = <<>>
    /\ bidx = 0
    /\ failed_dependencies = <<>>
    /\ configure_args = <<>>
    /\ attempted = <<>>
    /\ syslog = <<>>
    /\ bret = NullV

\* A call of a method has ended with the outcome o.
Called(op, w, o) ==
    /\ rec' = o.dep
    /\ rop' = op
    /\ rworld' = w
    /\ rout' = [ret |-> o.ret, exc |-> o.exc, calls |-> o.calls]
    /\ UNCHANGED notRec

\* rec.fetch(), lines 295-319
RecFetch(w) == Called("fetch", w, fetch(rec, w))

\* rec.checkout(), lines 329-352
RecCheckout(w) == Called("checkout", w, checkout(rec, w))

RecordNext ==
    \/ \E w \in FetchWorlds : RecFetch(w)
    \/ \E w \in CheckoutWorlds : RecCheckout(w)

SpecRecord == RecordInit /\ [][RecordNext]_vars

(***************************************************************************)
(* SpecBranch: top-level calls expand(key) on an EnvironmentExpander whose *)
(* key "t" holds ${flag?yes:no} and whose branch keys may be absent or     *)
(* lie on a cycle, and on the expander of an openhome record.              *)
(***************************************************************************)

\* What the key "flag" may hold, and the keys "yes" and "no": a literal,
\* nothing, a reference to itself, a reference back to "t".
BranchFlags == {BoolV(TRUE), BoolV(FALSE), NumV(1), NumV(0), Str("on"), Str("off"), NullV, Absent}
BranchValues(key) == {Str("value of " \o key), Absent, Str("${" \o key \o "}"), Str("$t")}

BranchEnvs ==
    {EnvOf(("t" :> Str("${flag?yes:no}")) @@ ("flag" :> f) @@ ("yes" :> y) @@ ("no" :> n)) :
        f \in BranchFlags, y \in BranchValues("yes"), n \in BranchValues("no")}
    \cup {RecordOf(DefB).env}

BranchKeys == {"t", "flag", "yes", "no", "archive-path", "local-archive-path"}

BranchInit ==
    /\ env_dict \in BranchEnvs
    /\ cache = EmptyMap
    /\ expandset = {}
    /\ lastcall = NoCall
    \* no Dependency called on its own
    /\ rec = NoRecord
    /\ rop = None
    /\ rworld = NoWorld
    /\ rout = NoOutcome
    \* no call of fetch_dependencies
    /\ fpc = "Idle"
    /\ fargs = NoArgs
    /\ fdlog = <<>>
    \* no call of clean_directories
    /\ cpc = "Idle"
    /\ directories = <<>>
    /\ idx = 0
    /\ moved = <<>>
    /\ lastdirectory = None
    /\ rb = 0
    /\ fs = <<>>
    /\ harmed = {}
    /\ raised = NoError
    /\ oplog = <<>>
    \* no collection
    /\ base_env = EmptyMap
    /\ definitions = <<>>
    /\ overrides = <<>>
    /\ dpos = 0
    /\ dependencies = EmptyMap
    /\ bpc = "Idle"
    /\ bexc = NoExc
    /\ bop = NoBatch
    /\ bsubset = NoSubset
    /\ blist = <<>>
    /\ bidx = 0
    /\ failed_dependencies = <<>>
    /\ configure_args = <<>>
    /\ attempted = <<>>
    /\ syslog = <<>>
    /\ bret = NullV

BranchNext == \E key \in BranchKeys : Resolve(key)

SpecBranch == BranchInit /\ [][BranchNext]_vars

\* ---- what the claim on the losing branch speaks of ----

\* A value with nothing to expand in it.
Literal(value) ==
    \/ value.ty \in {"bool", "num", "null"}
    \/ value.ty = "str" /\ ~Contains(value.s, "$")

\* The key holds one well-formed conditional and nothing else.
OneConditional(e, k) ==
    /\ k \in DOMAIN e
    /\ e[k].ty = "str"
    /\ Len(Matches(e[k].s, 1)) = 1
    /\ Matches(e[k].s, 1)[1].group = "parens"
    /\ Matches(e[k].s, 1)[1].text = e[k].s
    /\ Contains(ExprOf(Matches(e[k].s, 1)[1]), "?")
    /\ Contains(RestOf(ExprOf(Matches(e[k].s, 1)[1])), ":")

\* The expression of that conditional.
ConditionalOf(e, k) == ExprOf(Matches(e[k].s, 1)[1])

\* The branch key a conditional selects and the one it does not, by the value
\* the environment holds for the condition key (a literal in SpecBranch).
ConditionHolds(e, k) ==
    /\ CondOf(ConditionalOf(e, k)) \in DOMAIN e
    /\ e[CondOf(ConditionalOf(e, k))] \in TruthySet

Winner(e, k) ==
    IF ConditionHolds(e, k) THEN PrimaryOf(ConditionalOf(e, k)) ELSE AlternativeOf(ConditionalOf(e, k))

Loser(e, k) ==
    IF ConditionHolds(e, k) THEN AlternativeOf(ConditionalOf(e, k)) ELSE PrimaryOf(ConditionalOf(e, k))

\* The environment without a key.
Without(e, key) == [k \in DOMAIN e \ {key} |-> e[k]]

\* C21: a call that evaluates the conditional of a key leaves the branch key
\* it does not select as it found it, neither in the cache nor in the
\* in-progress set; it returns or raises exactly what it would on the
\* environment without that key; and when the condition key holds a literal
\* and the selected branch key a string without references, it returns that
\* string, whether the other branch key is absent, refers to itself or
\* refers back to the key of the conditional.
C21_LosingBranchUntouched ==
    [][(/\ OneConditional(env_dict, lastcall'.key)
        /\ lastcall'.key \notin DOMAIN cache
        /\ lastcall'.key \notin expandset) =>
            LET k == lastcall'.key
                lost == Loser(env_dict, k)
                won == Winner(env_dict, k)
                other == expand(Without(env_dict, lost), Now, k)
            IN /\ lost \in DOMAIN cache' <=> lost \in DOMAIN cache
               /\ lost \in expandset' <=> lost \in expandset
               /\ lastcall'.val = other.val
               /\ lastcall'.exc = other.exc
               /\ (/\ CondOf(ConditionalOf(env_dict, k)) \in DOMAIN env_dict
                   /\ won \in DOMAIN env_dict
                   /\ Literal(env_dict[won])) =>
                       /\ lastcall'.exc = NoExc
                       /\ lastcall'.val = env_dict[won]]_vars

\* C21's case: archive-path of an openhome record, whose use-local-archive
\* is false and whose local-archive-path is undefined, has resolved to the
\* remote path, and local-archive-path is in neither the cache nor the
\* in-progress set.
C21_Witness ==
    /\ lastcall.key = "archive-path"
    /\ Returned(lastcall)
    /\ env_dict["archive-path"] = Str("${use-local-archive?local-archive-path:remote-archive-path}")
    /\ env_dict["use-local-archive"] = BoolV(FALSE)
    /\ "local-archive-path" \notin DOMAIN env_dict
    /\ lastcall.val = Str("http://openhome.org/releases/artifacts/B/B-1.0-Linux-x64.tar.gz")
    /\ "local-archive-path" \notin DOMAIN cache
    /\ "local-archive-path" \notin expandset

(***************************************************************************)
(* Properties of the build (SpecBuild) and of a batch call (SpecBatch)     *)
(***************************************************************************)

\* The override of the list that has the name: the last such, none gives {}.
MatchedOverride(name) ==
    LET at == {j \in 1..Len(overrides) : overrides[j]["name"].s = name}
    IN IF at = {} THEN EmptyMap ELSE overrides[Max(at)]

\* The built-in defaults a definition inherits: those of its `type`, when it has one.
TypeDefaults(defn) ==
    IF "type" \in DOMAIN defn THEN DEPENDENCY_TYPES[defn["type"].s] ELSE EmptyMap

\* The four layers of a definition, lowest first.
Layers(defn) == <<base_env, TypeDefaults(defn), defn, MatchedOverride(defn["name"].s)>>

LayerKeys(defn) == UNION {DOMAIN Layers(defn)[l] : l \in 1..4}

\* The value of the highest layer that defines the key.
HighestLayer(defn, key) ==
    Layers(defn)[Max({l \in 1..4 : key \in DOMAIN Layers(defn)[l]})][key]

\* The definitions the build has gone through that gave a record.
Built ==
    {i \in 1..(dpos - 1) :
        ~("ignore" \in LayerKeys(definitions[i]) /\ Truthy(HighestLayer(definitions[i], "ignore")))}

\* C10: every record of the collection is the record of the last definition
\* built under its name; its environment has exactly the keys of the four
\* layers base environment < type defaults < definition < matching override,
\* each with the value of the highest layer that defines it; a key whose
\* highest value is a literal resolves to that literal; and has_overrides is
\* true exactly when the matching override is not empty.  Every definition
\* built has its record.
C10_LayeredMerge ==
    /\ \A i \in Built : definitions[i]["name"].s \in DOMAIN dependencies
    /\ \A name \in DOMAIN dependencies :
          LET from == {i \in Built : definitions[i]["name"].s = name}
              defn == definitions[Max(from)]
              record == dependencies[name]
          IN /\ from # {}
             /\ DOMAIN record.env = LayerKeys(defn)
             /\ \A key \in LayerKeys(defn) :
                   /\ record.env[key] = HighestLayer(defn, key)
                   /\ Literal(HighestLayer(defn, key)) =>
                         /\ Ok(expand(record.env, ExpanderOf(record), key))
                         /\ expand(record.env, ExpanderOf(record), key).val = HighestLayer(defn, key)
             /\ record.has_overrides = (DOMAIN MatchedOverride(name) # {})

\* C10's case: the definition {"name":"A","type":"external","archive-filename":"a.zip"}
\* built with the override {"name":"A","archive-filename":"a2.zip"} over a base
\* environment that has an archive-filename too: the record resolves
\* archive-filename to "a2.zip", dest to its type's default and not the base's,
\* and has_overrides is true.
C10_Witness ==
    /\ bpc = "Ready"
    /\ definitions = <<DefA>>
    /\ overrides = <<OvA>>
    /\ base_env["archive-filename"] = Str("base.zip")
    /\ "A" \in DOMAIN dependencies
    /\ dependencies["A"].has_overrides
    /\ expand(dependencies["A"].env, NewExpander, "archive-filename").val = Str("a2.zip")
    /\ expand(dependencies["A"].env, NewExpander, "dest").val = Str("dependencies/Linux-x64/")

\* The records of the batch call whose operation returned false.
Failed == SelectSeq(attempted, LAMBDA a : a.returned = "False")

RECURSIVE SplitNames(_)
SplitNames(s) ==
    LET seps == {j \in 1..(Len(s) - 1) : SubSeq(s, j, j + 1) = ", "}
    IN IF seps = {} THEN <<s>>
       ELSE <<SubSeq(s, 1, Min(seps) - 1)>> \o SplitNames(SubSeq(s, Min(seps) + 2, Len(s)))

NamedIn(message) ==
    LET colon == Find(message, ":", 1)
    IN SplitNames(SubSeq(message, colon + 2, Len(message) - 1))

\* C4: after fetch, checkout or get_args was called with a subset that has a
\* name the collection lacks, the call has raised one error whose message
\* lists every such name of the subset, no record's operation was attempted,
\* nothing was done on the world, no record has resolved any key, and nothing
\* was returned.
C4_MissingNamesRaiseFirst ==
    bop # NoBatch /\ bsubset.given
                  /\ (\E i \in 1..Len(bsubset.names) : bsubset.names[i] \notin DOMAIN dependencies) =>
        /\ bpc = "Raised"
        /\ bexc.exc = "Exception"
        /\ NamedIn(bexc.arg) = SelectSeq(bsubset.names, LAMBDA n : n \notin DOMAIN dependencies)
        /\ attempted = <<>>
        /\ syslog = <<>>
        /\ blist = <<>>
        /\ bret = NullV
        /\ \A name \in DOMAIN dependencies :
              dependencies[name].cache = EmptyMap /\ dependencies[name].expandset = {}

\* C4's case: a call of fetch with a subset whose first name the collection
\* has and whose second it lacks has raised.
C4_Witness ==
    /\ bop = "fetch"
    /\ bsubset.given
    /\ Len(bsubset.names) = 2
    /\ bsubset.names[1] \in DOMAIN dependencies
    /\ bsubset.names[2] \notin DOMAIN dependencies
    /\ bpc = "Raised"
    /\ NamedIn(bexc.arg) = <<bsubset.names[2]>>

\* The definitions the build has gone through whose merged environment has
\* a true `ignore` flag.
Ignored == (1..(dpos - 1)) \ Built

\* The environment the four layers of a definition merge to.
Merged(defn) == [key \in LayerKeys(defn) |-> HighestLayer(defn, key)]

\* The definitions built that have the name.
BuiltAs(name) == {j \in Built : definitions[j]["name"].s = name}

\* The keys of the records a batch call went to or has yet to go to.
OperatedOn ==
    {blist[i] : i \in 1..Len(blist)} \cup {attempted[i].key : i \in 1..Len(attempted)}

\* C11 as stated: after the build, the collection has no entry under the
\* name of a definition whose merged environment has a true `ignore` flag,
\* the name-existence check for that name is false, and no fetch, checkout or
\* get_args call goes to a record of that name.
C11_IgnoredNameAbsent ==
    \A i \in Ignored :
        /\ definitions[i]["name"].s \notin DOMAIN dependencies
        /\ ~__contains__(dependencies, definitions[i]["name"].s)
        /\ definitions[i]["name"].s \notin OperatedOn

\* C11: a definition whose merged environment has a true `ignore` flag gives
\* no record: the collection has an entry under its name exactly when another
\* definition of that name, without a true `ignore` flag, was built, and that
\* entry is the record of the last such definition; the name-existence check
\* says the same; the collection has as many records as the definitions
\* without the flag have names; and when there is no such other definition
\* no fetch, checkout or get_args call goes to a record of that name: a call
\* on all records leaves it out, and a call that asks for it by name raises
\* before any record's operation.
C11_IgnoredNeverARecord ==
    /\ DOMAIN dependencies = {definitions[j]["name"].s : j \in Built}
    /\ \A i \in Ignored :
          LET name == definitions[i]["name"].s
          IN /\ __contains__(dependencies, name) <=> BuiltAs(name) # {}
             /\ BuiltAs(name) # {} =>
                   dependencies[name].env = Merged(definitions[Max(BuiltAs(name))])
             /\ BuiltAs(name) = {} =>
                   /\ name \notin OperatedOn
                   /\ bsubset.given /\ (\E k \in 1..Len(bsubset.names) : bsubset.names[k] = name) =>
                         bpc = "Raised" /\ attempted = <<>> /\ syslog = <<>>

\* C11's case: the collection built from the definitions of A and of a B of
\* the ignored type has no B, and a fetch of all its records has returned
\* after fetching A alone.
C11_Witness ==
    /\ definitions = <<DefA, DefBOff>>
    /\ Ignored = {2}
    /\ ~__contains__(dependencies, "B")
    /\ bop = "fetch"
    /\ bsubset = NoSubset
    /\ bpc = "Returned"
    /\ Len(attempted) = 1
    /\ attempted[1].key = "A"

(***************************************************************************)
(* Properties of one Dependency's fetch and checkout (SpecRecord)          *)
(***************************************************************************)

\* The commands the last call ran, by name, in order.
Commands == [i \in 1..Len(rout.calls) |-> rout.calls[i][1]]

\* The last call was a checkout that came to its commands: name, source-git
\* and tag resolved, and source-git is not null.
CameToCommands ==
    /\ rop = "checkout"
    /\ {"name", "source-git", "tag"} \subseteq DOMAIN rec.cache
    /\ rec.cache["source-git"].ty # "null"

\* C14: a checkout that came to its commands has raised nothing; with
\* nothing at the source directory its first command is the clone of the
\* source repository, with a directory there it is fetch origin, with
\* something else there it ran no command and returned false; the checkout of
\* the resolved tag is the second command and ran exactly when the first
\* succeeded; nothing ran after a command that failed; and it returned true
\* exactly when both commands ran and succeeded.
C14_CheckoutCommandOrder ==
    CameToCommands =>
        /\ rout.exc = NoExc
        /\ rworld.srcdir = "file" => rout.calls = <<>> /\ ~rout.ret
        /\ rworld.srcdir = "absent" =>
              /\ Len(rout.calls) >= 1
              /\ Commands[1] = "git clone"
              /\ rout.calls[1] = <<"git clone", rec.cache["source-git"], rec.cache["name"]>>
        /\ rworld.srcdir = "dir" =>
              /\ Len(rout.calls) >= 1
              /\ Commands[1] = "git fetch origin"
              /\ rout.calls[1] = <<"git fetch origin", rec.cache["name"]>>
        /\ Len(rout.calls) <= 2
        /\ Len(rout.calls) = 2 <=> (rworld.srcdir # "file" /\ rworld.first = "ok")
        /\ Len(rout.calls) = 2 =>
              /\ Commands[2] = "git checkout"
              /\ rout.calls[2] = <<"git checkout", rec.cache["tag"], rec.cache["name"]>>
        /\ rout.ret <=> (Len(rout.calls) = 2 /\ rworld.first = "ok" /\ rworld.checkout = "ok")

\* C14's case: the source directory was not there, the clone succeeded and
\* the checkout of the tag failed: two commands, no exception, false.
C14_Witness ==
    /\ CameToCommands
    /\ rworld.srcdir = "absent"
    /\ rworld.checkout = "CalledProcessError"
    /\ Commands = <<"git clone", "git checkout">>
    /\ rout.calls[2][2] = Str("B_1.0")
    /\ rout.exc = NoExc
    /\ ~rout.ret

\* C15: a checkout of a record whose environment has no `source-git`, or has
\* null for it, has returned false, raised nothing and run no command.
C15_NoSourceGitReturnsFalse ==
    (rop = "checkout" /\ ("source-git" \notin DOMAIN rec.env \/ rec.env["source-git"] = NullV)) =>
        /\ rout.exc = NoExc
        /\ ~rout.ret
        /\ rout.calls = <<>>

\* What holds of C15: the same of a record whose `source-git` is null; with
\* no `source-git` in the environment the checkout raises (the key is
\* undefined; at a later call, it is still in the in-progress set) and runs
\* no command.
C15_NullSourceGitReturnsFalse ==
    /\ (rop = "checkout" /\ "source-git" \in DOMAIN rec.env /\ rec.env["source-git"] = NullV) =>
          /\ rout.exc = NoExc
          /\ ~rout.ret
          /\ rout.calls = <<>>
    /\ (rop = "checkout" /\ "source-git" \notin DOMAIN rec.env) =>
          /\ rout.exc \in {KeyError("source-git"), RecursiveExpansion("source-git")}
          /\ rout.calls = <<>>

\* The last call was a fetch that came to open the archive: archive-path,
\* dest, strip-archive-dirs and name resolved.
CameToOpen ==
    /\ rop = "fetch"
    /\ {"archive-path", "dest", "strip-archive-dirs", "name"} \subseteq DOMAIN rec.cache

\* C16: a fetch whose opening of the archive at the resolved archive-path
\* failed with an I/O error has returned false and raised nothing, and has
\* neither created the destination directory nor extracted anything: the
\* failed opening is the one call it made on the world.  A fetch that did not
\* come to open the archive made no call at all.
C16_OpenFailureReturnsFalse ==
    /\ (CameToOpen /\ rworld.open = "IOError") =>
          /\ rout.exc = NoExc
          /\ ~rout.ret
          /\ rout.calls = <<<<"open-failed", rec.cache["archive-path"].s>>>>
    /\ (rop = "fetch" /\ ~CameToOpen) => rout.exc # NoExc /\ rout.calls = <<>>

\* C16's case: the fetch of B, whose archive could not be opened.
C16_Witness ==
    /\ CameToOpen
    /\ rworld.open = "IOError"
    /\ rout.calls = <<<<"open-failed", "http://openhome.org/releases/artifacts/B/B-1.0-Linux-x64.tar.gz">>>>
    /\ ~rout.ret
    /\ rout.exc = NoExc

\* The last call was a fetch that opened the archive and so came to create
\* the destination directory.
CameToMakedirs == CameToOpen /\ rworld.open = "ok"

\* The last call ended in extract_archive's refusal to strip a zip archive.
UnsupportedStrip ==
    rout.exc.exc = "Exception:Cannot strip leading directories from zip archives."

\* The last call came to extractall.
ExtractionAttempted ==
    \E i \in 1..Len(rout.calls) : Commands[i] \in {"extractall", "extractall-failed"}

\* C17 as stated: of a fetch that came to create the destination directory,
\* the answer that the directory exists is ignored and the extraction is
\* attempted (unless the strip count is refused); any other failure to create
\* it has left fetch as an exception and no extraction was attempted.
C17_MakedirsFailureFatal ==
    CameToMakedirs =>
        /\ rworld.makedirs = "exists" => ExtractionAttempted \/ UnsupportedStrip
        /\ rworld.makedirs = "denied" => rout.exc # NoExc /\ ~ExtractionAttempted

\* C17: a fetch that came to create the destination directory asked for it
\* once, at the absolute path of the resolved dest, and went on to
\* extract_archive whatever the answer: created, exists, or any other
\* failure.  Unless the strip count is refused, extractall was called on that
\* path; fetch returned true exactly when extractall succeeded, and the one
\* exception that leaves it is extractall's own.
C17_MakedirsFailureIgnored ==
    CameToMakedirs =>
        /\ Len(rout.calls) >= 2
        /\ rout.calls[1] = <<"open", rec.cache["archive-path"].s>>
        /\ rout.calls[2] = <<"makedirs", Abspath(rec.cache["dest"].s), rworld.makedirs>>
        /\ ~UnsupportedStrip =>
              /\ Len(rout.calls) = 3
              /\ rout.calls[3] = <<IF rworld.extractall = "ok" THEN "extractall" ELSE "extractall-failed",
                                   Abspath(rec.cache["dest"].s)>>
              /\ rout.ret <=> rworld.extractall = "ok"
              /\ rout.exc = NoExc <=> rworld.extractall = "ok"

\* C17's case: the fetch of A, whose destination directory could not be
\* created for another reason than its existence: extractall was called and
\* succeeded, and fetch returned true.
C17_Witness ==
    /\ CameToMakedirs
    /\ rworld.makedirs = "denied"
    /\ rworld.extractall = "ok"
    /\ Commands = <<"open", "makedirs", "extractall">>
    /\ rout.calls[3][2] = "/work/dependencies/Linux-x64"
    /\ rout.ret
    /\ rout.exc = NoExc

\* The string ends with the suffix.
EndsWith(s, suffix) ==
    Len(s) >= Len(suffix) /\ SubSeq(s, Len(s) - Len(suffix) + 1, Len(s)) = suffix

\* The archive of the last fetch is of the zip family: the archives of the
\* records of SpecRecord that are.
ZipFamily ==
    \E suffix \in {".zip", ".NuPkg", ".jar"} : EndsWith(rec.cache["archive-path"].s, suffix)

\* The resolved strip count of the last fetch is greater than 0.
StripCountPositive ==
    \/ rec.cache["strip-archive-dirs"].ty = "num" /\ rec.cache["strip-archive-dirs"].n > 0
    \/ rec.cache["strip-archive-dirs"] = BoolV(TRUE)

\* C20: a fetch that came to extract_archive with a zip-family archive and a
\* strip count greater than 0 has raised the error that zip archives cannot
\* be stripped, has not returned true, and extractall was not called: the
\* calls it made on the world end with makedirs.  With a strip count of 0,
\* or a tar archive, extractall was called.
C20_ZipStripFails ==
    CameToMakedirs =>
        IF ZipFamily /\ StripCountPositive
        THEN /\ UnsupportedStrip
             /\ ~rout.ret
             /\ ~ExtractionAttempted
             /\ Commands = <<"open", "makedirs">>
        ELSE ~UnsupportedStrip /\ ExtractionAttempted

\* C20's case: the fetch of Z, a zip archive with strip-archive-dirs 1, whose
\* archive was opened and whose extractall would have succeeded.
C20_Witness ==
    /\ CameToMakedirs
    /\ rec.cache["archive-path"] = Str("http://openhome.org/releases/artifacts/Linux-x64/z.zip")
    /\ rec.cache["strip-archive-dirs"] = NumV(1)
    /\ rworld.extractall = "ok"
    /\ UnsupportedStrip
    /\ Commands = <<"open", "makedirs">>

(***************************************************************************)
(* clean_directories                                                       *)
(***************************************************************************)

\* Bounds of the cleaner's model.
NDirs == 3
MaxList == 3

DirNames == {"d1", "d2", "d3", "d4", "d5"}
DirOrder == <<"d1", "d2", "d3", "d4", "d5">>
Dirs == {DirOrder[i] : i \in 1..NDirs}

\* newname = directory + '.deleteme'
NewName(directory) == directory \o ".deleteme"

Paths == Dirs \cup {NewName(d) : d \in Dirs}

\* The directories fetch_dependencies has cleaned, lines 523-528.
FetchDirs == {"dependencies/AnyPlatform", "dependencies/Linux-x64", "dependencies/nuget"}
FetchPaths == FetchDirs \cup {NewName(d) : d \in FetchDirs}

\* The tree that stands at path d when the call starts is named after d.
Tree(d) == "tree:" \o d
Trees == {Tree(d) : d \in Dirs \cup FetchDirs}

\* os.path.isdir(path)
IsDir(f, path) == f[path] \in Trees

CleanInit ==
    /\ cpc = "Pending"
    /\ directories \in SeqsUpTo(Dirs, MaxList)
    /\ idx = 0
    /\ moved = <<>>
    /\ lastdirectory = None
    /\ rb = 0
    \* at d its own tree, a file or nothing; nothing at d.deleteme
    /\ fs \in {[p \in Paths |-> IF p \notin Dirs THEN "absent"
                                ELSE IF at[p] = "tree" THEN Tree(p) ELSE at[p]] :
                 at \in [Dirs -> {"tree", "absent", "file"}]}
    /\ harmed = {}
    /\ raised = NoError
    /\ oplog = <<>>
    \* no expander
    /\ env_dict = EmptyMap
    /\ cache = EmptyMap
    /\ expandset = {}
    /\ lastcall = NoCall
    \* no Dependency called on its own
    /\ rec = NoRecord
    /\ rop = None
    /\ rworld = NoWorld
    /\ rout = NoOutcome
    \* no call of fetch_dependencies
    /\ fpc = "Idle"
    /\ fargs = NoArgs
    /\ fdlog = <<>>
    \* no collection
    /\ base_env = EmptyMap
    /\ definitions = <<>>
    /\ overrides = <<>>
    /\ dpos = 0
    /\ dependencies = EmptyMap
    /\ bpc = "Idle"
    /\ bexc = NoExc
    /\ bop = NoBatch
    /\ bsubset = NoSubset
    /\ blist = <<>>
    /\ bidx = 0
    /\ failed_dependencies = <<>>
    /\ configure_args = <<>>
    /\ attempted = <<>>
    /\ syslog = <<>>
    /\ bret = NullV

\* os.rename(src, dst) when it succeeds.
Rename(f, src, dst) == [f EXCEPT ![dst] = f[src], ![src] = "absent"]

\* lines 468-472: directories = list(directories); moved = []; lastdirectory = None
CleanEnter ==
    /\ cpc = "Pending"
    /\ cpc' = "Renaming"
    /\ idx' = 1
    /\ moved' = <<>>
    /\ lastdirectory' = None
    /\ UNCHANGED <<directories, rb, fs, harmed, raised, oplog, notClean>>

\* RenameSkip with a path that is not a directory taken for a failure.
RenameSkip_Raises ==
    /\ cpc = "Renaming"
    /\ idx <= Len(directories)
    /\ ~IsDir(fs, directories[idx])
    /\ lastdirectory' = directories[idx]
    /\ cpc' = "RollingBack"
    /\ rb' = Len(moved)
    /\ UNCHANGED <<directories, idx, moved, fs, harmed, raised, oplog, notClean>>

\* lines 474-475: a path that is not a directory is passed over.
RenameSkip ==
    /\ cpc = "Renaming"
    /\ idx <= Len(directories)
    /\ ~IsDir(fs, directories[idx])
    /\ idx' = idx + 1
    /\ UNCHANGED <<cpc, directories, moved, lastdirectory, rb, fs, harmed, raised, oplog, notClean>>

\* lines 476-480: the rename succeeds.
RenameOk ==
    /\ cpc = "Renaming"
    /\ idx <= Len(directories)
    /\ IsDir(fs, directories[idx])
    /\ LET directory == directories[idx] IN
        /\ fs' = Rename(fs, directory, NewName(directory))
        /\ lastdirectory' = None
        /\ moved' = Append(moved, directory)
        /\ oplog' = Append(oplog, <<"rename", directory>>)
    /\ idx' = idx + 1
    /\ UNCHANGED <<cpc, directories, rb, harmed, raised, notClean>>

\* RenameFail with the handler of line 481 doing no rollback.
RenameFail_NoRollback ==
    /\ cpc = "Renaming"
    /\ idx <= Len(directories)
    /\ IsDir(fs, directories[idx])
    /\ lastdirectory' = directories[idx]
    /\ oplog' = Append(oplog, <<"rename-failed", directories[idx]>>)
    /\ cpc' = "RollingBack"
    /\ rb' = 0
    /\ UNCHANGED <<directories, idx, moved, fs, harmed, raised, notClean>>

\* lines 476-478 and 481: os.rename raises; lastdirectory keeps the name, and the
\* handler starts walking reversed(moved).
RenameFail ==
    /\ cpc = "Renaming"
    /\ idx <= Len(directories)
    /\ IsDir(fs, directories[idx])
    /\ lastdirectory' = directories[idx]
    /\ oplog' = Append(oplog, <<"rename-failed", directories[idx]>>)
    /\ cpc' = "RollingBack"
    /\ rb' = Len(moved)
    /\ UNCHANGED <<directories, idx, moved, fs, harmed, raised, notClean>>

\* lines 482-483: one os.rename(newname, original) of the rollback succeeds.
UndoOk ==
    /\ cpc = "RollingBack"
    /\ rb >= 1
    /\ fs' = Rename(fs, NewName(moved[rb]), moved[rb])
    /\ oplog' = Append(oplog, <<"undo", moved[rb]>>)
    /\ rb' = rb - 1
    /\ UNCHANGED <<cpc, directories, idx, moved, lastdirectory, harmed, raised, notClean>>

\* The exception that leaves clean_directories, lines 487-491.
CleanError(last) ==
    IF last # None THEN [kind |-> "named", directory |-> last]
    ELSE [kind |-> "generic", directory |-> None]

\* UndoFail with a rollback that passes over the rename-back that raised.
UndoFail_Swallowed ==
    /\ cpc = "RollingBack"
    /\ rb >= 1
    /\ oplog' = Append(oplog, <<"undo-failed", moved[rb]>>)
    /\ rb' = rb - 1
    /\ UNCHANGED <<cpc, directories, idx, moved, lastdirectory, fs, harmed, raised, notClean>>

\* lines 482-483: a rename of the rollback raises; the exception leaves the
\* handler and reaches line 487.
UndoFail ==
    /\ cpc = "RollingBack"
    /\ rb >= 1
    /\ oplog' = Append(oplog, <<"undo-failed", moved[rb]>>)
    /\ cpc' = "Failed"
    /\ raised' = CleanError(lastdirectory)
    /\ UNCHANGED <<directories, idx, moved, lastdirectory, rb, fs, harmed, notClean>>

\* RollbackDone without the `raise` of line 484: the call goes on to the deletes.
RollbackDone_NoRaise ==
    /\ cpc = "RollingBack"
    /\ rb = 0
    /\ cpc' = "Deleting"
    /\ idx' = 1
    /\ UNCHANGED <<directories, moved, lastdirectory, rb, fs, harmed, raised, oplog, notClean>>

\* line 484: the rollback is over, the rename's exception is raised again and
\* reaches line 487.
RollbackDone ==
    /\ cpc = "RollingBack"
    /\ rb = 0
    /\ cpc' = "Failed"
    /\ raised' = CleanError(lastdirectory)
    /\ UNCHANGED <<directories, idx, moved, lastdirectory, rb, fs, harmed, oplog, notClean>>

\* line 485: the rename loop ended without an exception.
RenamingDone ==
    /\ cpc = "Renaming"
    /\ idx > Len(directories)
    /\ cpc' = "Deleting"
    /\ idx' = 1
    /\ UNCHANGED <<directories, moved, lastdirectory, rb, fs, harmed, raised, oplog, notClean>>

\* line 486: shutil.rmtree(newname) succeeds.
DeleteOk ==
    /\ cpc = "Deleting"
    /\ idx <= Len(moved)
    /\ LET newname == NewName(moved[idx]) IN
        /\ harmed' = harmed \cup {fs[newname]}
        /\ fs' = [fs EXCEPT ![newname] = "absent"]
    /\ oplog' = Append(oplog, <<"rmtree", moved[idx]>>)
    /\ idx' = idx + 1
    /\ UNCHANGED <<cpc, directories, moved, lastdirectory, rb, raised, notClean>>

\* DeleteFail with a loop that passes over the failure and goes on deleting.
DeleteFail_KeepsDeleting ==
    /\ cpc = "Deleting"
    /\ idx <= Len(moved)
    /\ \E partly \in BOOLEAN :
        harmed' = IF partly THEN harmed \cup {fs[NewName(moved[idx])]} ELSE harmed
    /\ oplog' = Append(oplog, <<"rmtree-failed", moved[idx]>>)
    /\ idx' = idx + 1
    /\ UNCHANGED <<cpc, directories, moved, lastdirectory, rb, fs, raised, notClean>>

\* line 486: shutil.rmtree(newname) raises, before or after it removed part of
\* the tree; the directory itself is still there.  The exception reaches line 487.
DeleteFail ==
    /\ cpc = "Deleting"
    /\ idx <= Len(moved)
    /\ \E partly \in BOOLEAN :
        harmed' = IF partly THEN harmed \cup {fs[NewName(moved[idx])]} ELSE harmed
    /\ oplog' = Append(oplog, <<"rmtree-failed", moved[idx]>>)
    /\ cpc' = "Failed"
    /\ raised' = CleanError(lastdirectory)
    /\ UNCHANGED <<directories, idx, moved, lastdirectory, rb, fs, notClean>>

\* The delete loop ended: clean_directories returns.
DeletingDone ==
    /\ cpc = "Deleting"
    /\ idx > Len(moved)
    /\ cpc' = "Committed"
    /\ UNCHANGED <<directories, idx, moved, lastdirectory, rb, fs, harmed, raised, oplog, notClean>>

CleanNext ==
    \/ CleanEnter
    \/ RenameSkip
    \/ RenameOk
    \/ RenameFail
    \/ UndoOk
    \/ UndoFail
    \/ RollbackDone
    \/ RenamingDone
    \/ DeleteOk
    \/ DeleteFail
    \/ DeletingDone

SpecClean == CleanInit /\ [][CleanNext]_vars

SpecCleanFair == CleanInit /\ [][CleanNext]_vars /\ WF_vars(CleanNext)

\* ---- what the cleaner's log and filesystem say ----

HasOp(kind) == \E i \in 1..Len(oplog) : oplog[i][1] = kind

IsUndo(op) == op[1] = "undo"

Reverse(s) == [i \in 1..Len(s) |-> s[Len(s) + 1 - i]]

\* The directories the rollback renamed back, oldest first.
Undone == [i \in 1..Len(SelectSeq(oplog, IsUndo)) |-> SelectSeq(oplog, IsUndo)[i][2]]

\* The directory whose rename raised.
FailedRename == CHOOSE d \in Dirs : \E i \in 1..Len(oplog) : oplog[i] = <<"rename-failed", d>>

\* Every tree stands where it stood when the call started, and no sibling is left.
AllInPlace ==
    /\ \A d \in Dirs : fs[NewName(d)] = "absent"
    /\ \A i \in 1..Len(moved) : fs[moved[i]] = Tree(moved[i])
    /\ fs[FailedRename] = Tree(FailedRename)

\* What C1 promises once a rename has failed and the call has ended.
RolledBackCleanly ==
    /\ Undone = Reverse(moved)
    /\ raised = [kind |-> "named", directory |-> FailedRename]
    /\ AllInPlace
    /\ harmed = {}

C2_Safety ==
    /\ (HasOp("rmtree") \/ HasOp("rmtree-failed") \/ harmed # {}) =>
          /\ ~HasOp("rename-failed")
          /\ cpc \in {"Deleting", "Committed", "Failed"}
          /\ \A i \in 1..Len(directories) : ~IsDir(fs, directories[i])
    /\ (cpc = "RollingBack" \/ HasOp("rename-failed")) =>
          /\ ~HasOp("rmtree") /\ ~HasOp("rmtree-failed") /\ harmed = {}
          /\ cpc \in {"RollingBack", "Failed"}
    /\ cpc = "Committed" =>
          /\ raised = NoError
          /\ \A i \in 1..Len(moved) : fs[NewName(moved[i])] = "absent"
    /\ cpc = "Failed" => raised # NoError
    /\ raised # NoError => cpc = "Failed"

\* C2: in every execution no tree is deleted before every rename has succeeded,
\* a run that enters rollback never deletes, and every run ends Committed
\* (returned) or Failed (raised).
C2_TwoPhase == [](C2_Safety) /\ <>(cpc \in {"Committed", "Failed"})

\* C2's case: a call that deleted two renamed trees and returned.
C2_Witness ==
    /\ cpc = "Committed"
    /\ Len(moved) = 2
    /\ Cardinality(harmed) = 2

\* C18: once an rmtree of the delete phase has failed (every rename had
\* succeeded), the call has raised the error that names no directory, that
\* rmtree is the last OS call it made (no rename back, no further rmtree),
\* the trees deleted before it are gone, and the tree whose rmtree failed and
\* the trees after it stand under their .deleteme names, none under its
\* original name.
C18_DeleteFailureStops ==
    HasOp("rmtree-failed") =>
        /\ cpc = "Failed"
        /\ raised = [kind |-> "generic", directory |-> None]
        /\ ~HasOp("rename-failed") /\ ~HasOp("undo") /\ ~HasOp("undo-failed")
        /\ oplog[Len(oplog)] = <<"rmtree-failed", moved[idx]>>
        /\ \A i \in 1..(Len(oplog) - 1) : oplog[i][1] \in {"rename", "rmtree"}
        /\ \A i \in 1..Len(moved) :
              /\ fs[moved[i]] = "absent"
              /\ fs[NewName(moved[i])] = IF i < idx THEN "absent" ELSE Tree(moved[i])
              /\ i > idx => Tree(moved[i]) \notin harmed

\* C18's case: three directories were renamed, the first was deleted and the
\* rmtree of the second failed.
C18_Witness ==
    /\ cpc = "Failed"
    /\ Len(moved) = 3
    /\ idx = 2
    /\ oplog[Len(oplog)] = <<"rmtree-failed", moved[2]>>
    /\ fs[NewName(moved[1])] = "absent"
    /\ fs[NewName(moved[3])] = Tree(moved[3])

\* No OS call was made yet and no listed path is a directory: the call has
\* found no directory to remove.
NothingToRemove ==
    /\ oplog = <<>>
    /\ \A i \in 1..Len(directories) : ~IsDir(fs, directories[i])

\* C19: when the rename loop reaches a path that is not a directory then, its
\* step goes to the next path and nothing else: no rename, no rmtree, no
\* error, the filesystem as it was.  And a call that finds no directory at
\* any listed path (an empty list too) never makes an OS call nor changes the
\* filesystem, step after step, raises nothing, and returns.
C19_SkipsNonDirectories ==
    /\ [][(cpc = "Renaming" /\ idx <= Len(directories) /\ ~IsDir(fs, directories[idx])) =>
              /\ idx' = idx + 1
              /\ cpc' = "Renaming"
              /\ fs' = fs
              /\ moved' = moved
              /\ oplog' = oplog
              /\ harmed' = harmed
              /\ raised' = raised]_vars
    /\ [][NothingToRemove =>
              /\ fs' = fs
              /\ oplog' = <<>>
              /\ harmed' = {}
              /\ raised' = NoError
              /\ cpc' \notin {"RollingBack", "Failed"}]_vars
    /\ NothingToRemove ~> (cpc = "Committed" /\ NothingToRemove)

\* C19's case: of three listed paths the first is a file and the second is
\* not there; the call passed over both, renamed and deleted the third, and
\* returned with the file in place.
C19_Witness ==
    /\ cpc = "Committed"
    /\ directories = <<"d1", "d2", "d3">>
    /\ fs["d1"] = "file"
    /\ fs["d2"] = "absent"
    /\ oplog = <<<<"rename", "d3">>, <<"rmtree", "d3">>>>

\* C22: once a rename-back of the rollback has failed, the call has raised
\* an error (the one that names the directory whose rename failed first),
\* that rename-back is the last OS call it made, no rmtree was called and no
\* tree is harmed; the directories renamed back before it stand under their
\* original names, and the directory whose rename-back failed and those the
\* rollback had not reached stand under their .deleteme names.
C22_RollbackFailureIsFatal ==
    HasOp("undo-failed") =>
        /\ cpc = "Failed"
        /\ raised = [kind |-> "named", directory |-> FailedRename]
        /\ ~HasOp("rmtree") /\ ~HasOp("rmtree-failed")
        /\ harmed = {}
        /\ rb \in 1..Len(moved)
        /\ oplog[Len(oplog)] = <<"undo-failed", moved[rb]>>
        /\ \A i \in 1..(Len(oplog) - 1) : oplog[i][1] # "undo-failed"
        /\ \A i \in 1..Len(moved) :
              IF i <= rb
              THEN fs[NewName(moved[i])] = Tree(moved[i]) /\ fs[moved[i]] = "absent"
              ELSE fs[moved[i]] = Tree(moved[i]) /\ fs[NewName(moved[i])] = "absent"

\* C22's case: two directories were renamed, the rename of a third failed,
\* the second was renamed back and the rename-back of the first failed.
C22_Witness ==
    /\ cpc = "Failed"
    /\ Len(moved) = 2
    /\ rb = 1
    /\ oplog[Len(oplog)] = <<"undo-failed", moved[1]>>
    /\ oplog[Len(oplog) - 1] = <<"undo", moved[2]>>
    /\ fs[NewName(moved[1])] = Tree(moved[1])
    /\ fs[moved[2]] = Tree(moved[2])

(***************************************************************************)
(* SpecFetchDeps: one call of fetch_dependencies, lines 493-552.  The call *)
(* goes through clean_directories (the cleaner's own steps), then          *)
(* read_json_dependencies_from_filename, then the fetch batch, NuGet and   *)
(* the checkout batch (the batch's own steps).  env is None or a dict,     *)
(* logfile is None, local_overrides is True and verbose is False.          *)
(***************************************************************************)

\* The files projectdata/dependencies.json and ../dependency_overrides.json.
FetchDefs == {<<DefA, DefB>>, <<DefB, DefD>>, <<DefA, DefNameless>>}
FetchOverrides == {<<>>, <<OvD>>}

\* env=...: None, a dict of the caller's, and one that names the platform.
NoEnv == [given |-> FALSE, dict |-> EmptyMap]
EnvArg(d) == [given |-> TRUE, dict |-> d]
LinnEnv == EnvArg(("linn-git-user" :> Str("joe")))
PlatformEnv == EnvArg(("platform" :> Str("Linux-x64")) @@ ("linn-git-user" :> Str("joe")))

\* The calls made: the default flags first, then flags switched one by one.
FetchCalls == {
    [dependency_names |-> NoSubset, platform |-> "Linux-x64", env |-> LinnEnv,
     fetch |-> TRUE, nuget |-> TRUE, clean |-> TRUE, source |-> FALSE, list_details |-> FALSE],
    [dependency_names |-> Subset(<<"B">>), platform |-> "Linux-x64", env |-> LinnEnv,
     fetch |-> TRUE, nuget |-> TRUE, clean |-> TRUE, source |-> TRUE, list_details |-> FALSE],
    [dependency_names |-> NoSubset, platform |-> None, env |-> NoEnv,
     fetch |-> TRUE, nuget |-> FALSE, clean |-> TRUE, source |-> TRUE, list_details |-> FALSE],
    [dependency_names |-> Subset(<<"A", "Z">>), platform |-> "Linux-x64", env |-> NoEnv,
     fetch |-> TRUE, nuget |-> FALSE, clean |-> TRUE, source |-> TRUE, list_details |-> FALSE],
    [dependency_names |-> Subset(<<"B">>), platform |-> "Linux-x64", env |-> LinnEnv,
     fetch |-> TRUE, nuget |-> FALSE, clean |-> FALSE, source |-> TRUE, list_details |-> FALSE],
    [dependency_names |-> Subset(<<"A">>), platform |-> "Linux-x64", env |-> LinnEnv,
     fetch |-> FALSE, nuget |-> TRUE, clean |-> TRUE, source |-> TRUE, list_details |-> FALSE],
    [dependency_names |-> NoSubset, platform |-> "Linux-x64", env |-> LinnEnv,
     fetch |-> TRUE, nuget |-> TRUE, clean |-> TRUE, source |-> FALSE, list_details |-> TRUE],
    [dependency_names |-> NoSubset, platform |-> None, env |-> PlatformEnv,
     fetch |-> TRUE, nuget |-> TRUE, clean |-> TRUE, source |-> FALSE, list_details |-> FALSE] }

\* What stands under dependencies/ when the call starts: each of the three
\* directories there or not, nuget also as a file.
FetchFilesystems ==
    {[p \in FetchPaths |-> IF p \notin FetchDirs THEN "absent"
                           ELSE IF at[p] = "tree" THEN Tree(p) ELSE at[p]] :
        at \in {a \in [FetchDirs -> {"tree", "absent", "file"}] :
                    /\ a["dependencies/AnyPlatform"] = "tree"
                    /\ a["dependencies/Linux-x64"] # "file"
                    /\ a["dependencies/nuget"] # "absent"}}

\* The answers of the world to one record's fetch and checkout.
FetchDepsFetchWorlds ==
    {w \in FetchWorlds : w.makedirs # "denied" /\ w.open # "error"}
FetchDepsCheckoutWorlds ==
    {w \in CheckoutWorlds : w.srcdir # "file" /\ w.checkout = "ok"}

IOError(path) == [exc |-> "IOError", arg |-> path]
IndexError == [exc |-> "IndexError", arg |-> "list index out of range"]
CalledProcessError(cmd) == [exc |-> "CalledProcessError", arg |-> cmd]
PlatformError == [exc |-> "Exception", arg |-> "Platform not specified and unable to guess."]

FetchDepsInit ==
    /\ fpc = "Called"
    /\ fargs \in FetchCalls
    /\ fdlog = <<>>
    \* clean_directories not called yet
    /\ cpc = "Idle"
    /\ directories = <<>>
    /\ idx = 0
    /\ moved = <<>>
    /\ lastdirectory = None
    /\ rb = 0
    /\ fs \in FetchFilesystems
    /\ harmed = {}
    /\ raised = NoError
    /\ oplog = <<>>
    \* no collection yet
    /\ base_env = EmptyMap
    /\ definitions = <<>>
    /\ overrides = <<>>
    /\ dpos = 0
    /\ dependencies = EmptyMap
    /\ bpc = "Idle"
    /\ bexc = NoExc
    /\ bop = NoBatch
    /\ bsubset = NoSubset
    /\ blist = <<>>
    /\ bidx = 0
    /\ failed_dependencies = <<>>
    /\ configure_args = <<>>
    /\ attempted = <<>>
    /\ syslog = <<>>
    /\ bret = NullV
    \* no expander of its own
    /\ env_dict = EmptyMap
    /\ cache = EmptyMap
    /\ expandset = {}
    /\ lastcall = NoCall
    \* no Dependency called on its own
    /\ rec = NoRecord
    /\ rop = None
    /\ rworld = NoWorld
    /\ rout = NoOutcome

\* lines 512-517: env and platform after the first three ifs, when
\* default_platform() answers guess.
EnvGiven(args) == IF ~args.env.given THEN EmptyMap ELSE args.env.dict
EnvNamed(args) ==
    IF args.platform # None THEN Update(EnvGiven(args), ("platform" :> Str(args.platform)))
    ELSE EnvGiven(args)
PlatformOf(args, guess) ==
    IF "platform" \notin DOMAIN EnvNamed(args) THEN guess ELSE args.platform
EnvOfCall(args, guess) ==
    IF "platform" \notin DOMAIN EnvNamed(args)
    THEN Update(EnvNamed(args), ("platform" :> (IF guess = None THEN NullV ELSE Str(guess))))
    ELSE EnvNamed(args)

\* default_platform() is asked only when env has no platform.
Guesses(args) == IF "platform" \notin DOMAIN EnvNamed(args) THEN {None, "Linux-x64"} ELSE {None}

\* lines 521-528
clean_dirs(args, platform) ==
    (IF args.fetch THEN <<"dependencies/AnyPlatform", "dependencies/" \o platform>> ELSE <<>>)
        \o (IF args.nuget THEN <<"dependencies/nuget">> ELSE <<>>)

\* lines 512-519: no platform, the call raises.
PlatformRaises ==
    /\ fpc = "Called"
    /\ \E guess \in Guesses(fargs) :
        /\ PlatformOf(fargs, guess) = None
        /\ fargs' = [fargs EXCEPT !.env = EnvArg(EnvOfCall(fargs, guess))]
    /\ fpc' = "Raised"
    /\ fdlog' = Append(fdlog, <<"platform", "raised">>)
    /\ UNCHANGED <<cleanVars, expVars, collVars, recVars>>

\* lines 512-529: clean_directories is called.
CleanCalled ==
    /\ fpc = "Called"
    /\ fargs.clean /\ ~fargs.list_details
    /\ \E guess \in Guesses(fargs) :
        /\ PlatformOf(fargs, guess) # None
        /\ fargs' = [fargs EXCEPT !.env = EnvArg(EnvOfCall(fargs, guess)),
                                  !.platform = PlatformOf(fargs, guess)]
        /\ directories' = clean_dirs(fargs, PlatformOf(fargs, guess))
    /\ cpc' = "Pending"
    /\ fpc' = "Cleaning"
    /\ fdlog' = Append(fdlog, <<"clean_directories", "called">>)
    /\ UNCHANGED <<idx, moved, lastdirectory, rb, fs, harmed, raised, oplog,
                   expVars, collVars, recVars>>

\* lines 512-520: clean is off, or list_details on.
CleanSkipped ==
    /\ fpc = "Called"
    /\ ~(fargs.clean /\ ~fargs.list_details)
    /\ \E guess \in Guesses(fargs) :
        /\ PlatformOf(fargs, guess) # None
        /\ fargs' = [fargs EXCEPT !.env = EnvArg(EnvOfCall(fargs, guess)),
                                  !.platform = PlatformOf(fargs, guess)]
    /\ fpc' = "Loading"
    /\ UNCHANGED <<fdlog, cleanVars, expVars, collVars, recVars>>

\* line 529, inside clean_directories.
Cleaning ==
    /\ fpc = "Cleaning"
    /\ CleanNext

\* CleanRaised with the call going on after the cleaner's exception.
CleanRaised_GoesOn ==
    /\ fpc = "Cleaning"
    /\ cpc = "Failed"
    /\ fpc' = "Loading"
    /\ fdlog' = Append(fdlog, <<"clean_directories", "raised">>)
    /\ UNCHANGED <<fargs, cleanVars, expVars, collVars, recVars>>

\* line 529: clean_directories raises; nothing handles it.
CleanRaised ==
    /\ fpc = "Cleaning"
    /\ cpc = "Failed"
    /\ fpc' = "Raised"
    /\ fdlog' = Append(fdlog, <<"clean_directories", "raised">>)
    /\ UNCHANGED <<fargs, cleanVars, expVars, collVars, recVars>>

\* line 529: clean_directories returns.
Cleaned ==
    /\ fpc = "Cleaning"
    /\ cpc = "Committed"
    /\ fpc' = "Loading"
    /\ fdlog' = Append(fdlog, <<"clean_directories", "returned">>)
    /\ UNCHANGED <<fargs, cleanVars, expVars, collVars, recVars>>

\* lines 532-533 and 432-440: open('projectdata/dependencies.json') raises.
LoadOpenRaises ==
    /\ fpc = "Loading"
    /\ bexc' = IOError("projectdata/dependencies.json")
    /\ fpc' = "Raised"
    /\ fdlog' = Append(fdlog, <<"read_json_dependencies", "raised">>)
    /\ UNCHANGED <<fargs, base_env, definitions, overrides, dpos, dependencies, bpc,
                   batchVars, cleanVars, expVars, recVars>>

\* lines 532-533, 432-440 and 421-430: the files hold defs and ovs, and
\* create_dependency raises for one of defs; r is what read_json_dependencies left.
LoadRaisesWith(defs, ovs, r) ==
    /\ r.exc # NoExc
    /\ base_env' = fargs.env.dict
    /\ definitions' = defs
    /\ overrides' = ovs
    /\ bexc' = r.exc
    /\ bpc' = "BuildFailed"
    /\ fpc' = "Raised"
    /\ fdlog' = Append(fdlog, <<"read_json_dependencies", "raised">>)
    /\ UNCHANGED <<fargs, dpos, dependencies, batchVars, cleanVars, expVars, recVars>>

LoadRaises(defs, ovs) ==
    /\ fpc = "Loading"
    /\ LoadRaisesWith(defs, ovs, read_json_dependencies(fargs.env.dict, defs, ovs, Len(defs)))

\* lines 532-533, 432-440 and 421-430: the collection is built.
LoadedWith(defs, ovs, r) ==
    /\ r.exc = NoExc
    /\ base_env' = fargs.env.dict
    /\ definitions' = defs
    /\ overrides' = ovs
    /\ dpos' = Len(defs) + 1
    /\ dependencies' = r.dependencies
    /\ bpc' = "Ready"
    /\ fpc' = IF fargs.list_details THEN "Listing" ELSE "Fetching"
    /\ fdlog' = Append(fdlog, <<"read_json_dependencies", "returned">>)
    /\ UNCHANGED <<fargs, bexc, batchVars, cleanVars, expVars, recVars>>

Loaded(defs, ovs) ==
    /\ fpc = "Loading"
    /\ LoadedWith(defs, ovs, read_json_dependencies(fargs.env.dict, defs, ovs, Len(defs)))

\* lines 536-537: dependency['archive-path'] and dependency['dest'] of one
\* record, by __getitem__ of lines 323-324.
Detail(d, r) == [dep |-> WithExpander(d, StateOf(r)), exc |-> r.exc]
Details_537(d, r1) ==
    IF ~Ok(r1) THEN Detail(d, r1)
    ELSE Detail(d, expand(d.env, StateOf(r1), "dest"))
Details(d) == Details_537(d, expand(d.env, ExpanderOf(d), "archive-path"))

\* lines 534-544 for the records order[1..n], in the order items() gives them.
ListPut(deps, key, o) == [dependencies |-> [deps EXCEPT ![key] = o.dep], exc |-> o.exc]
ListTurn(before, key) ==
    IF before.exc # NoExc THEN before
    ELSE ListPut(before.dependencies, key, Details(before.dependencies[key]))
RECURSIVE ListDetails(_, _, _)
ListDetails(deps, order, n) ==
    IF n = 0 THEN [dependencies |-> deps, exc |-> NoExc]
    ELSE ListTurn(ListDetails(deps, order, n - 1), order[n])

\* lines 534-544: the details are printed and the call returns.
ListedWith(o) ==
    /\ o.exc = NoExc
    /\ dependencies' = o.dependencies
    /\ fpc' = "Returned"
    /\ fdlog' = Append(fdlog, <<"list_details", "returned">>)
    /\ UNCHANGED <<fargs, base_env, definitions, overrides, dpos, bpc, bexc, batchVars,
                   cleanVars, expVars, recVars>>

Listed ==
    /\ fpc = "Listing"
    /\ \E order \in Orders(DOMAIN dependencies) :
          ListedWith(ListDetails(dependencies, order, Len(order)))

\* lines 534-537: a detail cannot be expanded.
ListRaisesWith(o) ==
    /\ o.exc # NoExc
    /\ dependencies' = o.dependencies
    /\ bexc' = o.exc
    /\ fpc' = "Raised"
    /\ fdlog' = Append(fdlog, <<"list_details", "raised">>)
    /\ UNCHANGED <<fargs, base_env, definitions, overrides, dpos, bpc, batchVars,
                   cleanVars, expVars, recVars>>

ListRaises ==
    /\ fpc = "Listing"
    /\ \E order \in Orders(DOMAIN dependencies) :
          ListRaisesWith(ListDetails(dependencies, order, Len(order)))

\* line 545: fetch is off.
FetchSkipped ==
    /\ fpc = "Fetching"
    /\ ~fargs.fetch
    /\ fpc' = "Nuget"
    /\ UNCHANGED <<fargs, fdlog, cleanVars, expVars, collVars, recVars>>

\* line 546: dependencies.fetch(dependency_names), step by step.
FetchFilterRaises ==
    /\ fpc = "Fetching" /\ fargs.fetch
    /\ FilterRaises("fetch", fargs.dependency_names)

FetchCalled ==
    /\ fpc = "Fetching" /\ fargs.fetch
    /\ BatchStart("fetch", fargs.dependency_names)

FetchTurn ==
    /\ fpc = "Fetching"
    /\ \E w \in FetchDepsFetchWorlds : FetchStep(w)

FetchTurnRaises ==
    /\ fpc = "Fetching"
    /\ \E w \in FetchDepsFetchWorlds : FetchRaises(w)

FetchLoopEnds ==
    /\ fpc = "Fetching"
    /\ BatchEnd

\* line 546: the batch returned, True or False; the value is dropped.
Fetched ==
    /\ fpc = "Fetching"
    /\ bpc = "Returned"
    /\ bpc' = "Ready"
    /\ fpc' = "Nuget"
    /\ fdlog' = Append(fdlog, <<"fetch", "returned">>)
    /\ UNCHANGED <<fargs, base_env, definitions, overrides, dpos, dependencies, bexc,
                   batchVars, cleanVars, expVars, recVars>>

\* line 546: the batch raised.
FetchRaised ==
    /\ fpc = "Fetching"
    /\ bpc = "Raised"
    /\ fpc' = "Raised"
    /\ fdlog' = Append(fdlog, <<"fetch", "raised">>)
    /\ UNCHANGED <<fargs, cleanVars, expVars, collVars, recVars>>

\* line 547: nuget is off.
NugetSkipped ==
    /\ fpc = "Nuget"
    /\ ~fargs.nuget
    /\ fpc' = "Checkout"
    /\ UNCHANGED <<fargs, fdlog, cleanVars, expVars, collVars, recVars>>

NugetInstall == <<"nuget install", "projectdata/packages.config", "dependencies/nuget">>

\* line 548: glob finds no NuGet.exe and [0] raises.
NugetMissing ==
    /\ fpc = "Nuget"
    /\ fargs.nuget
    /\ bexc' = IndexError
    /\ fpc' = "Raised"
    /\ fdlog' = Append(fdlog, <<"nuget", "raised">>)
    /\ UNCHANGED <<fargs, base_env, definitions, overrides, dpos, dependencies, bpc,
                   batchVars, cleanVars, expVars, recVars>>

\* lines 548-549 and 441-444: check_call raises.
NugetRaises ==
    /\ fpc = "Nuget"
    /\ fargs.nuget
    /\ syslog' = Append(syslog, NugetInstall)
    /\ bexc' = CalledProcessError("nuget install")
    /\ fpc' = "Raised"
    /\ fdlog' = Append(fdlog, <<"nuget", "raised">>)
    /\ UNCHANGED <<fargs, base_env, definitions, overrides, dpos, dependencies, bpc,
                   bop, bsubset, blist, bidx, failed_dependencies, configure_args,
                   attempted, bret, cleanVars, expVars, recVars>>

\* lines 548-549 and 441-444: NuGet installs the packages.
NugetInstalled ==
    /\ fpc = "Nuget"
    /\ fargs.nuget
    /\ syslog' = Append(syslog, NugetInstall)
    /\ fpc' = "Checkout"
    /\ fdlog' = Append(fdlog, <<"nuget", "returned">>)
    /\ UNCHANGED <<fargs, base_env, definitions, overrides, dpos, dependencies, bpc, bexc,
                   bop, bsubset, blist, bidx, failed_dependencies, configure_args,
                   attempted, bret, cleanVars, expVars, recVars>>

\* lines 550 and 552: source is off, the call returns.
CheckoutSkipped ==
    /\ fpc = "Checkout"
    /\ ~fargs.source
    /\ fpc' = "Returned"
    /\ UNCHANGED <<fargs, fdlog, cleanVars, expVars, collVars, recVars>>

\* line 551: dependencies.checkout(dependency_names), step by step.
CheckoutFilterRaises ==
    /\ fpc = "Checkout" /\ fargs.source
    /\ FilterRaises("checkout", fargs.dependency_names)

CheckoutCalled ==
    /\ fpc = "Checkout" /\ fargs.source
    /\ BatchStart("checkout", fargs.dependency_names)

CheckoutTurn ==
    /\ fpc = "Checkout"
    /\ \E w \in FetchDepsCheckoutWorlds : CheckoutStep(w)

CheckoutTurnRaises ==
    /\ fpc = "Checkout"
    /\ \E w \in FetchDepsCheckoutWorlds : CheckoutRaises(w)

CheckoutLoopEnds ==
    /\ fpc = "Checkout"
    /\ BatchEnd

\* lines 551-552: the batch returned and so does the call.
CheckedOut ==
    /\ fpc = "Checkout"
    /\ bpc = "Returned"
    /\ fpc' = "Returned"
    /\ fdlog' = Append(fdlog, <<"checkout", "returned">>)
    /\ UNCHANGED <<fargs, cleanVars, expVars, collVars, recVars>>

\* line 551: the batch raised.
CheckoutRaised ==
    /\ fpc = "Checkout"
    /\ bpc = "Raised"
    /\ fpc' = "Raised"
    /\ fdlog' = Append(fdlog, <<"checkout", "raised">>)
    /\ UNCHANGED <<fargs, cleanVars, expVars, collVars, recVars>>

FetchDepsNext ==
    \/ PlatformRaises
    \/ CleanCalled
    \/ CleanSkipped
    \/ Cleaning
    \/ CleanRaised
    \/ Cleaned
    \/ LoadOpenRaises
    \/ \E defs \in FetchDefs, ovs \in FetchOverrides : LoadRaises(defs, ovs)
    \/ \E defs \in FetchDefs, ovs \in FetchOverrides : Loaded(defs, ovs)
    \/ Listed
    \/ ListRaises
    \/ FetchSkipped
    \/ FetchFilterRaises
    \/ FetchCalled
    \/ FetchTurn
    \/ FetchTurnRaises
    \/ FetchLoopEnds
    \/ Fetched
    \/ FetchRaised
    \/ NugetSkipped
    \/ NugetMissing
    \/ NugetRaises
    \/ NugetInstalled
    \/ CheckoutSkipped
    \/ CheckoutFilterRaises
    \/ CheckoutCalled
    \/ CheckoutTurn
    \/ CheckoutTurnRaises
    \/ CheckoutLoopEnds
    \/ CheckedOut
    \/ CheckoutRaised

SpecFetchDeps == FetchDepsInit /\ [][FetchDepsNext]_vars

\* ---- what the call's log and the collection say ----

\* The call is one the cleaner goes first in: clean and fetch on, list_details off.
CleanAndFetch == fargs.clean /\ fargs.fetch /\ ~fargs.list_details

\* Something of the collection exists: a definition was read, a record was
\* built, a batch was started, or a call was made on the world.
CollectionTouched ==
    \/ bpc # "Idle"
    \/ definitions # <<>>
    \/ dependencies # EmptyMap
    \/ bop # NoBatch
    \/ attempted # <<>>
    \/ syslog # <<>>

\* The calls on the world that a record's fetch makes, and those its checkout makes.
FetchKinds == {"open", "open-failed", "makedirs", "extractall", "extractall-failed"}
GitKinds == {"git clone", "git fetch origin", "git checkout"}
CallsOf(kinds) == {i \in 1..Len(syslog) : syslog[i][1] \in kinds}

Logged(stage, how) == \E i \in 1..Len(fdlog) : fdlog[i] = <<stage, how>>

\* clean_directories returned: every listed directory is gone, under both names.
CleanerCompleted ==
    /\ cpc = "Committed"
    /\ raised = NoError
    /\ Logged("clean_directories", "returned")
    /\ \A i \in 1..Len(directories) :
          ~IsDir(fs, directories[i]) /\ fs[NewName(directories[i])] = "absent"

C23_Stages ==
    CleanAndFetch =>
        /\ (CollectionTouched \/ fpc \in {"Loading", "Fetching", "Nuget", "Checkout", "Returned"})
              => CleanerCompleted
        /\ cpc = "Failed" =>
              /\ ~CollectionTouched
              /\ fpc \in {"Cleaning", "Raised"}
              /\ ~Logged("read_json_dependencies", "returned")
              /\ ~Logged("fetch", "returned") /\ ~Logged("nuget", "returned")
              /\ ~Logged("checkout", "returned")
        /\ (bop = "checkout" \/ CallsOf(GitKinds) # {}) =>
              /\ Logged("fetch", "returned")
              /\ fpc \in {"Checkout", "Returned", "Raised"}
              /\ \A i \in CallsOf(FetchKinds), j \in CallsOf(GitKinds) : i < j

\* Once the call has left clean_directories the cleaner does nothing more, and
\* a call that raised does nothing more at all.
C23_CleanerIsOver ==
    /\ (CleanAndFetch /\ fpc \notin {"Called", "Cleaning"}) => UNCHANGED cleanVars
    /\ (CleanAndFetch /\ fpc = "Raised") => UNCHANGED vars

\* C23: in a call of fetch_dependencies with clean and fetch on and
\* list_details off, clean_directories has returned before any definition is
\* read, any record built and any record's fetch or checkout started, and it
\* acts no more afterwards; when clean_directories raises the call raises with
\* no definition read and no fetch, NuGet call or checkout made; and the
\* fetch batch has returned, with all its calls made, before the checkout
\* batch starts.
C23_CleanThenFetchThenCheckout == [](C23_Stages) /\ [][C23_CleanerIsOver]_vars

\* C23's case: a call with clean, fetch, nuget and source on that returned:
\* the cleaner removed trees, then a record was fetched, NuGet was run and a
\* record was checked out.
C23_Witness ==
    /\ fpc = "Returned"
    /\ CleanAndFetch /\ fargs.nuget /\ fargs.source
    /\ HasOp("rmtree")
    /\ fdlog = << <<"clean_directories", "called">>, <<"clean_directories", "returned">>,
                  <<"read_json_dependencies", "returned">>, <<"fetch", "returned">>,
                  <<"nuget", "returned">>, <<"checkout", "returned">> >>
    /\ CallsOf({"extractall"}) # {}
    /\ CallsOf({"git checkout"}) # {}
    /\ \A i \in CallsOf(FetchKinds), j \in CallsOf(GitKinds) :
          i < j /\ \E n \in (i + 1)..(j - 1) : syslog[n] = NugetInstall

====
